---- MODULE Spec2Model ----
(***************************************************************************)
(* spy4js: the spy runtime.  A spy is a callable that records every call   *)
(* in its call log and then runs its current behaviour function; Spy.on    *)
(* replaces a method of an object by a spy and remembers the original in   *)
(* the spy registry, from which restore puts it back.                      *)
(***************************************************************************)
EXTENDS Integers, Sequences, FiniteSets, TLC

(***************************************************************************)
(* Bounds of the model.                                                    *)
(***************************************************************************)
MaxSpies == 2
MaxOps == 5
MaxCallCount == 1

(***************************************************************************)
(* JavaScript values.  Every value is a record with a type tag t.          *)
(***************************************************************************)
Undefined == [t |-> "undefined"]
Num(n) == [t |-> "number", v |-> n]
Str(s) == [t |-> "string", v |-> s]
NaN == [t |-> "number", nan |-> TRUE]
\* n + 1/2, a number that is no integer
Half(n) == [t |-> "number", v |-> n, half |-> TRUE]
IsInteger(x) == \* x % 1 === 0
    x # NaN /\ "half" \notin DOMAIN x
\* a === b
Identical(a, b) == a = b /\ a # NaN
Err(m) == [t |-> "error", message |-> m]
JsNull == [t |-> "null"]
Bool(b) == [t |-> "boolean", v |-> b]
\* new String(s) and new Boolean(b): objects, known by id, that wrap a value
BoxedStr(id, s) == [t |-> "string", v |-> s, box |-> id]
BoxedBool(id, b) == [t |-> "boolean", v |-> b, box |-> id]
\* a regular expression with its textual form, a date with its epoch value
\* (NaN for an invalid date); both are objects, known by id
RegExp(id, text) == [t |-> "regexp", id |-> id, text |-> text]
Date(id, time) == [t |-> "date", id |-> id, time |-> time]
Resolved(v) == [t |-> "promise", state |-> "fulfilled", v |-> v]
Rejected(e) == [t |-> "promise", state |-> "rejected", v |-> e]
Fn(id) == [t |-> "function", id |-> id, isSpy |-> FALSE]
SpyRef(i) == [t |-> "function", spy |-> i, isSpy |-> TRUE]
Applied(id, args) == [t |-> "applied", fn |-> id, args |-> args]

\* an optional setting: <<>> is undefined, <<x>> is the defined value x
None == <<>>
Some(x) == <<x>>
Truthy(o) == o # None /\ o[1]

\* the outcome of a call: a returned value or a raised error
Return(v) == [type |-> "return", v |-> v]
Throw(e) == [type |-> "throw", v |-> e]

\* spy[Symbols.index] of a spy that wraps nothing
Null == -1
Falsy(i) == i = Null \/ i = 0

(***************************************************************************)
(* The functions a test hands to the library and the methods it wraps.    *)
(* A function is known by its id; calling it either raises or returns a    *)
(* value that names the function and carries the arguments it was given.   *)
(***************************************************************************)
RaisingFns == {"fRaise", "origG"}
Apply(id, args) ==
    IF id \in RaisingFns THEN Throw(Err(id)) ELSE Return(Applied(id, args))

\* the writable properties of the test's object, its property that has a
\* getter and no setter, and the values they hold at first
Props == {"f", "g", "k"}
GetterOnly == {"r"}
InitialObj ==
    [p \in Props \cup GetterOnly |->
        CASE p = "f" -> Fn("origF") [] p = "g" -> Fn("origG")
          [] p = "k" -> Num(7) [] p = "r" -> Fn("origR")]

\* the argument lists of the calls a test makes
ArgLists == {<<Num(1)>>, <<Num(1), Num(2)>>}

(***************************************************************************)
(* utils: toError.  A bare message becomes an error with that message that *)
(* carries the spy's name; an error passes through unchanged.              *)
(***************************************************************************)
toError(msgOrError, spyName) ==
    IF msgOrError.t = "error"
    THEN msgOrError
    ELSE [t |-> "error", message |-> msgOrError, spy |-> spyName]

(***************************************************************************)
(* The functions calls() selects from: a function of the test (UserFn),    *)
(* the closure () => arg of returns (ConstFn) and the closure of rejects   *)
(* () => Promise.reject(toError(msgOrError, name)) (RejectFn).             *)
(***************************************************************************)
UserFn(id) == [fn |-> "user", id |-> id]
ConstFn(v) == [fn |-> "const", v |-> v]
RejectFn(e) == [fn |-> "reject", e |-> e]

CallFn(fd, args, spyName) ==
    CASE fd.fn = "user" -> Apply(fd.id, args)
      [] fd.fn = "const" -> Return(fd.v)
      [] fd.fn = "reject" -> Return(Rejected(toError(fd.e, spyName)))

(***************************************************************************)
(* The behaviour functions a spy can hold in spy[Symbols.func].            *)
(***************************************************************************)
\* () => {}
NoopFunc == [kind |-> "noop"]

\* as CallsFunc, but the counter starts at 0
CallsFunc_CounterZero(funcs) ==
    IF Len(funcs) = 0
    THEN NoopFunc
    ELSE [kind |-> "calls", funcs |-> funcs, counter |-> 0]

\* the closure calls() installs, with its captured funcs and counter
CallsFunc(funcs) ==
    IF Len(funcs) = 0
    THEN NoopFunc
    ELSE [kind |-> "calls", funcs |-> funcs, counter |-> -1]

ReturnsFunc(vals) == CallsFunc([i \in 1..Len(vals) |-> ConstFn(vals[i])])

ResolvesFunc(vals) ==
    LET args == IF Len(vals) # 0 THEN vals ELSE <<Undefined>>
    IN  ReturnsFunc([i \in 1..Len(args) |-> Resolved(args[i])])

RejectsFunc(msgOrErrors) ==
    LET args == IF Len(msgOrErrors) # 0 THEN msgOrErrors ELSE <<Undefined>>
    IN  CallsFunc([i \in 1..Len(args) |-> RejectFn(args[i])])

\* the closure throws() installs
ThrowsFunc(msgOrError) == [kind |-> "throws", msgOrError |-> msgOrError]

\* as TransparentAfterFunc, but the threshold is one call later
TransparentAfterFunc_OneLater(oldFunc, callCount) ==
    [kind |-> "transparent", callCount |-> callCount + 1, oldFunc |-> oldFunc]

\* the closure transparentAfter() installs around the behaviour it found
TransparentAfterFunc(oldFunc, callCount) ==
    [kind |-> "transparent", callCount |-> callCount, oldFunc |-> oldFunc]

(***************************************************************************)
(* Running a behaviour function.  len is spy[Symbols.calls].length at the  *)
(* time of the call, original is what registry.getOriginalMethod returns   *)
(* (None when there is nothing).  The result carries the outcome, the      *)
(* behaviour with its closure state advanced, and whether the original     *)
(* method and the wrapped old behaviour were invoked.                      *)
(***************************************************************************)
RECURSIVE RunFunc(_, _, _, _, _)
RunFunc(func, args, len, original, spyName) ==
    CASE func.kind = "noop" ->
            [res |-> Return(Undefined), func |-> func,
             forwarded |-> FALSE, ranOld |-> FALSE]
      [] func.kind = "calls" ->
            LET max == Len(func.funcs) - 1
                counter == func.counter + 1
                pick == IF max < counter THEN max ELSE counter
            IN  [res |-> CallFn(func.funcs[pick + 1], args, spyName),
                 func |-> [func EXCEPT !.counter = counter],
                 forwarded |-> FALSE, ranOld |-> FALSE]
      [] func.kind = "throws" ->
            [res |-> Throw(toError(func.msgOrError, spyName)), func |-> func,
             forwarded |-> FALSE, ranOld |-> FALSE]
      [] func.kind = "transparent" ->
            IF len > func.callCount
            THEN IF original # None
                 THEN [res |-> Apply(original[1].id, args), func |-> func,
                       forwarded |-> TRUE, ranOld |-> FALSE]
                 ELSE [res |-> Return(Undefined), func |-> func,
                       forwarded |-> FALSE, ranOld |-> FALSE]
            ELSE LET r == RunFunc(func.oldFunc, args, len, original, spyName)
                 IN  [res |-> r.res,
                      func |-> [func EXCEPT !.oldFunc = r.func],
                      forwarded |-> r.forwarded, ranOld |-> TRUE]

(***************************************************************************)
(* State.                                                                  *)
(*   spies     AllCreatedSpies, each spy with its private fields           *)
(*   register  the entries of the spy registry; a handle is a position     *)
(*   obj       the properties of the object under test                     *)
(*   hist      per spy: the latest behaviour configuration and the number  *)
(*             of invocations since (history, not read by the program)     *)
(*   last      the latest operation, its input and its outcome             *)
(*   nOps      the number of operations the test has made so far           *)
(*   scope     the current mock scope                                      *)
(*   _mocks    for each scope that exists, its mock declarations in order  *)
(***************************************************************************)
VARIABLES spies, register, obj, hist, last, nOps, scope, _mocks

vars == <<spies, register, obj, hist, last, nOps, scope, _mocks>>

\* the state of mock.ts: the current scope and the declarations of each scope
mockVars == <<scope, _mocks>>
defaultScope == "__Spy_global__"

DefaultSettings == [useOwnEquals |-> TRUE]

SpyIds == 1..Len(spies)

(***************************************************************************)
(* The spy registry.  registry.js is not among the sources; the registry   *)
(* follows its description: entries are appended and never removed, a      *)
(* handle is the 1-based position of its entry.                            *)
(***************************************************************************)
Known(reg, handle) == handle \in 1..Len(reg)

\* push(container, key): the new register; the handle is its length
push(reg, o, key) ==
    Append(reg, [key |-> key, original |-> o[key],
                 active |-> TRUE, persistent |-> FALSE])

getOriginalMethod(reg, handle) ==
    IF Known(reg, handle) /\ reg[handle].active
    THEN Some(reg[handle].original)
    ELSE None

persist(reg, handle, flag) ==
    IF Known(reg, handle)
    THEN [reg EXCEPT ![handle].persistent = flag]
    ELSE reg

\* restore(handle): the register and the object afterwards
registryRestore(reg, o, handle) ==
    IF Known(reg, handle) /\ reg[handle].active
    THEN [reg |-> [reg EXCEPT ![handle].active = FALSE],
          obj |-> [o EXCEPT ![reg[handle].key] = reg[handle].original]]
    ELSE [reg |-> reg, obj |-> o]

\* the on-restore callbacks of the spies in ss, fired by the registry when
\* it restores their entries: a declaration that holds one of the spies is
\* no longer active
onRestore(mocks, ss) ==
    [sc \in DOMAIN mocks |->
        [d \in 1..Len(mocks[sc]) |->
            IF \E m \in DOMAIN mocks[sc][d].mock, s \in ss :
                   mocks[sc][d].mock[m] = SpyRef(s)
            THEN [mocks[sc][d] EXCEPT !.active = FALSE]
            ELSE mocks[sc][d]]]

\* the spy s when its entry is one the registry restores, else nothing
Restored(reg, s) ==
    IF Known(reg, spies[s].index) /\ reg[spies[s].index].active
    THEN {s} ELSE {}

(***************************************************************************)
(* The record of the latest operation.                                     *)
(***************************************************************************)
Done(op, s, input, res) ==
    [op |-> op, spy |-> s, input |-> input, res |-> res,
     prior |-> 0, funcBefore |-> NoopFunc, original |-> None,
     forwarded |-> FALSE, ranOld |-> FALSE]

NoCfg == [op |-> "none", input |-> <<>>]

\* every operation of the test counts against MaxOps
Tick == nOps < MaxOps /\ nOps' = nOps + 1

Init ==
    /\ spies = <<>>
    /\ register = <<>>
    /\ obj = InitialObj
    /\ hist = <<>>
    /\ last = Done("init", 0, <<>>, Return(Undefined))
    /\ nOps = 0
    /\ scope = defaultScope
    /\ _mocks = [sc \in {defaultScope} |-> <<>>]

(***************************************************************************)
(* Spy construction.                                                       *)
(***************************************************************************)
\* what the latest behaviour configuration of a spy was (history):
\*   cfg        the operation and its input
\*   since      the invocations made since
\*   overwrote  it replaced a configured behaviour that had been invoked
\*   viaOn      the spy was created by Spy.on
\*   wrapped    the value Spy.on found on the property
NewHist(viaOn, wrapped) ==
    [cfg |-> NoCfg, since |-> 0, overwrote |-> FALSE,
     viaOn |-> viaOn, wrapped |-> wrapped]

\* as Spy, but the __mock argument is ignored
Spy_IgnoresMock(name, mock, LOCK, reg, o) ==
    [name |-> IF name = "" THEN "the spy" ELSE name,
     index |-> Null,
     func |-> NoopFunc,
     calls |-> <<>>,
     config |-> [useOwnEquals |-> DefaultSettings.useOwnEquals,
                 persistent |-> None]]

\* the constructor: the new spy; mock is None or Some(methodName), LOCK is
\* __LOCK__, reg and o are the register and the object it finds
Spy(name, mock, LOCK, reg, o) ==
    [name |-> IF mock # None /\ ~LOCK
              THEN "the spy on '" \o name \o "'"
              ELSE IF name = "" THEN "the spy" ELSE name,
     index |-> IF mock # None /\ ~LOCK
               THEN Len(push(reg, o, mock[1]))
               ELSE Null,
     func |-> NoopFunc,
     calls |-> <<>>,
     config |-> [useOwnEquals |-> DefaultSettings.useOwnEquals,
                 persistent |-> None]]

\* the register after the constructor has run
SpyRegister(mock, LOCK, reg, o) ==
    IF mock # None /\ ~LOCK THEN push(reg, o, mock[1]) ELSE reg

\* new Spy(name)
NewSpy(name) ==
    /\ Tick
    /\ UNCHANGED mockVars
    /\ Len(spies) < MaxSpies
    /\ spies' = Append(spies, Spy(name, None, TRUE, register, obj))
    /\ register' = SpyRegister(None, TRUE, register, obj)
    /\ hist' = Append(hist, NewHist(FALSE, Undefined))
    /\ last' = Done("new", Len(spies) + 1, <<>>, Return(SpyRef(Len(spies) + 1)))
    /\ UNCHANGED obj

\* Spy.on(obj, methodName).  The constructor pushes the registry entry; the
\* assignment that follows is refused by a property that has only a getter,
\* and the spy then stays unknown to the test.  on is the call a test
\* makes, SpyOn what the call does.
\* as on, but the registry entry is pushed before the property is examined
on_RegistersFirst(methodName) ==
    LET method == obj[methodName]
        id == Len(spies) + 1
    IN  /\ Tick
        /\ UNCHANGED mockVars
        /\ Len(spies) < MaxSpies
        /\ register' = SpyRegister(Some(methodName), FALSE, register, obj)
        /\ IF method.t # "function"
           THEN /\ last' = Done("on", 0, methodName,
                                Throw(Err("You should only spy on functions!")))
                /\ UNCHANGED <<spies, obj, hist>>
           ELSE IF method.isSpy
           THEN /\ last' = Done("on", 0, methodName,
                                Throw(Err("was already spied")))
                /\ UNCHANGED <<spies, obj, hist>>
           ELSE IF methodName \in GetterOnly
           THEN /\ last' = Done("on", 0, methodName,
                                Throw(Err("has only a getter")))
                /\ UNCHANGED <<spies, obj, hist>>
           ELSE /\ spies' = Append(spies,
                      Spy(methodName, Some(methodName), FALSE, register, obj))
                /\ obj' = [obj EXCEPT ![methodName] = SpyRef(id)]
                /\ hist' = Append(hist, NewHist(TRUE, method))
                /\ last' = Done("on", id, methodName, Return(SpyRef(id)))

\* Spy.on(obj, methodName) on the spies, the register and the object of w:
\* what it leaves of them, its outcome in res, and in spy the spy it has
\* handed out (0 when it raises)
SpyOn(w, methodName) ==
    LET method == w.obj[methodName]
        id == Len(w.spies) + 1
    IN  IF method.t # "function"
        THEN [w EXCEPT !.spy = 0,
                       !.res = Throw(Err("You should only spy on functions!"))]
        ELSE IF method.isSpy
        THEN [w EXCEPT !.spy = 0, !.res = Throw(Err("was already spied"))]
        ELSE IF methodName \in GetterOnly
        THEN [w EXCEPT !.spy = 0,
                       !.res = Throw(Err("has only a getter")),
                       !.register = SpyRegister(Some(methodName), FALSE,
                                                w.register, w.obj)]
        ELSE [w EXCEPT !.spy = id,
                       !.res = Return(SpyRef(id)),
                       !.spies = Append(w.spies,
                                    Spy(methodName, Some(methodName), FALSE,
                                        w.register, w.obj)),
                       !.register = SpyRegister(Some(methodName), FALSE,
                                                w.register, w.obj),
                       !.obj = [w.obj EXCEPT ![methodName] = SpyRef(id)],
                       !.hist = Append(w.hist, NewHist(TRUE, method))]

\* the spies, the register, the object and the declarations as they are
World ==
    [spies |-> spies, register |-> register, obj |-> obj, hist |-> hist,
     mocks |-> _mocks, spy |-> 0, res |-> Return(Undefined), spyOnCalls |-> 0]

on(methodName) ==
    LET r == SpyOn(World, methodName)
    IN  /\ Tick
        /\ UNCHANGED mockVars
        /\ Len(spies) < MaxSpies
        /\ spies' = r.spies
        /\ register' = r.register
        /\ obj' = r.obj
        /\ hist' = r.hist
        /\ last' = Done("on", r.spy, methodName, r.res)

(***************************************************************************)
(* Mock declarations (mock.ts).  A declaration names methods of the test's *)
(* object; its mock holds a placeholder for each until initMocks binds it  *)
(* to a spy made by Spy.on.                                                *)
(***************************************************************************)
\* the placeholder of a method, and what calling it raises
uninitialized(method) == Fn("uninitialized " \o method)

\* as NotInitialized, but the message does not name the method
NotInitialized_Unnamed(method) ==
    Err("Method was not initialized on Mock.")

NotInitialized(method) ==
    Err("Method '" \o method \o "' was not initialized on Mock.")

\* the set of the elements of a sequence
Elements(seq) == {seq[i] : i \in 1..Len(seq)}

\* the MockInfo that createMock leaves in the current scope: keys are the
\* keys of mock in insertion order; callsFactory and moduleName are None
\* when not given
MockInfo(methods, callsFactory, moduleName, sc) ==
    [mocked |-> "obj",
     keys |-> methods,
     mock |-> [m \in Elements(methods) |-> uninitialized(m)],
     scope |-> sc,
     callsFactory |-> callsFactory,
     moduleName |-> moduleName,
     active |-> FALSE]

\* setScope(scoping): scoping is None or Some(name)
setScope(scoping) ==
    /\ Tick
    /\ IF scoping # None
       THEN /\ _mocks' = [sc \in DOMAIN _mocks \cup {scoping[1]} |->
                             IF sc = scoping[1] THEN <<>> ELSE _mocks[sc]]
            /\ scope' = scoping[1]
       ELSE /\ scope' = defaultScope
            /\ UNCHANGED _mocks
    /\ last' = Done("setScope", 0, scoping, Return(Undefined))
    /\ UNCHANGED <<spies, register, obj, hist>>

\* as createMock, but the declaration goes to the default scope
createMock_InDefaultScope(methods, callsFactory, moduleName) ==
    /\ Tick
    /\ _mocks' = [_mocks EXCEPT ![defaultScope] =
                     Append(@, MockInfo(methods, callsFactory, moduleName,
                                        defaultScope))]
    /\ last' = Done("createMock", 0, methods, Return(Undefined))
    /\ UNCHANGED <<spies, register, obj, hist, scope>>

\* createMock(obj, methods, callsFactory, moduleName)
createMock(methods, callsFactory, moduleName) ==
    /\ Tick
    /\ _mocks' = [_mocks EXCEPT ![scope] =
                     Append(@, MockInfo(methods, callsFactory, moduleName,
                                        scope))]
    /\ last' = Done("createMock", 0, methods, Return(Undefined))
    /\ UNCHANGED <<spies, register, obj, hist, scope>>

ScopeName(sc) ==
    IF sc = defaultScope THEN "global scope" ELSE "scope \"" \o sc \o "\""

couldNotInitError(sc, additional) ==
    Err("Could not initialize mock for " \o ScopeName(sc)
        \o ", because:\n" \o additional)

\* what initMock appends to the message under jest for a getter-only property
JestHint(moduleName, method) ==
    LET name == IF moduleName = None THEN "undefined" ELSE moduleName[1]
    IN  "\nInserting a jest module mock might resolve this problem. "
        \o "jest.mock('" \o name \o "'); jest.mock('" \o name
        \o "', () => ({ ...jest.requireActual('" \o name \o "'), '"
        \o method \o "': () => {}, }));"

RECURSIVE initMockFrom(_, _, _, _, _, _)

\* as initMockFrom, but the active flag is read afresh for every method
initMockFrom_FreshFlag(w, sc, d, active, isJest, i) ==
    LET mockInfo == w.mocks[sc][d]
    IN  IF i > Len(mockInfo.keys)
        THEN w
        ELSE IF mockInfo.active
        THEN initMockFrom(w, sc, d, active, isJest, i + 1)
        ELSE LET method == mockInfo.keys[i]
                 r == [SpyOn(w, method) EXCEPT !.spyOnCalls = @ + 1]
                 msg == r.res.v.message
                     \o (IF isJest /\ r.res.v = Err("has only a getter")
                         THEN JestHint(mockInfo.moduleName, method) ELSE "")
             IN  IF r.res.type = "throw"
                 THEN [r EXCEPT
                          !.res = Throw(couldNotInitError(mockInfo.scope, msg))]
                 ELSE initMockFrom(
                          [r EXCEPT
                              !.mocks[sc][d].active = TRUE,
                              !.mocks[sc][d].mock[method] = SpyRef(r.spy),
                              !.spies[r.spy].func =
                                  IF mockInfo.callsFactory # None
                                  THEN CallsFunc(<<UserFn(method)>>)
                                  ELSE @,
                              !.hist[r.spy].cfg =
                                  IF mockInfo.callsFactory # None
                                  THEN [op |-> "calls",
                                        input |-> <<UserFn(method)>>]
                                  ELSE @],
                          sc, d, active, isJest, i + 1)

\* the forEach of initMock over the keys of mock from the i-th (1-based)
\* on, for the declaration d of the scope sc; active is the flag as initMock
\* has read it before the loop.  A failure of spyOn ends the loop.
initMockFrom(w, sc, d, active, isJest, i) ==
    LET mockInfo == w.mocks[sc][d]
    IN  IF i > Len(mockInfo.keys)
        THEN w
        ELSE IF active
        THEN initMockFrom(w, sc, d, active, isJest, i + 1)
        ELSE LET method == mockInfo.keys[i]
                 r == [SpyOn(w, method) EXCEPT !.spyOnCalls = @ + 1]
                 msg == r.res.v.message
                     \o (IF isJest /\ r.res.v = Err("has only a getter")
                         THEN JestHint(mockInfo.moduleName, method) ELSE "")
             IN  IF r.res.type = "throw"
                 THEN [r EXCEPT
                          !.res = Throw(couldNotInitError(mockInfo.scope, msg))]
                 ELSE initMockFrom(
                          [r EXCEPT
                              !.mocks[sc][d].active = TRUE,
                              !.mocks[sc][d].mock[method] = SpyRef(r.spy),
                              !.spies[r.spy].func =
                                  IF mockInfo.callsFactory # None
                                  THEN CallsFunc(<<UserFn(method)>>)
                                  ELSE @,
                              !.hist[r.spy].cfg =
                                  IF mockInfo.callsFactory # None
                                  THEN [op |-> "calls",
                                        input |-> <<UserFn(method)>>]
                                  ELSE @],
                          sc, d, active, isJest, i + 1)

initMock(w, sc, d, isJest) ==
    initMockFrom(w, sc, d, w.mocks[sc][d].active, isJest, 1)

RECURSIVE initMockScopeFrom(_, _, _, _)
\* the forEach of initMockScope from the declaration d on
initMockScopeFrom(w, scoping, isJest, d) ==
    IF d > Len(w.mocks[scoping])
    THEN w
    ELSE LET r == initMock(w, scoping, d, isJest)
         IN  IF r.res.type = "throw"
             THEN r
             ELSE initMockScopeFrom(r, scoping, isJest, d + 1)

\* Object.values(_mocks[scoping]) fails for a scope that does not exist
initMockScope(w, scoping, isJest) ==
    IF scoping \notin DOMAIN w.mocks
    THEN [w EXCEPT !.res = Throw(Err("TypeError"))]
    ELSE initMockScopeFrom([w EXCEPT !.res = Return(Undefined)],
                           scoping, isJest, 1)

\* initMocks(spyOn, scoping) with Spy.on for spyOn; scoping is None or
\* Some(name)
initMocksOf(w, scoping, isJest) ==
    LET r == initMockScope(w, defaultScope, isJest)
    IN  IF r.res.type = "throw" \/ scoping = None
        THEN r
        ELSE initMockScope(r, scoping[1], isJest)

\* Spy.initMocks(scope); isJest is Env.isJest
initMocks(scoping, isJest) ==
    LET r == initMocksOf(World, scoping, isJest)
    IN  /\ Tick
        /\ spies' = r.spies
        /\ register' = r.register
        /\ obj' = r.obj
        /\ hist' = r.hist
        /\ _mocks' = r.mocks
        /\ last' = [Done("initMocks", 0, scoping, r.res)
                        EXCEPT !.prior = r.spyOnCalls]
        /\ UNCHANGED scope

\* the test calls the member of a mock that still is its placeholder (a
\* bound member is a spy, and calling it is Invoke)
CallPlaceholder(sc, d, method) ==
    /\ Tick
    /\ sc \in DOMAIN _mocks
    /\ d \in 1..Len(_mocks[sc])
    /\ method \in DOMAIN _mocks[sc][d].mock
    /\ _mocks[sc][d].mock[method] = uninitialized(method)
    /\ last' = [Done("callMock", 0, <<sc, method>>,
                         Throw(NotInitialized(method)))
                        EXCEPT !.prior = d]
    /\ UNCHANGED <<spies, register, obj, hist, scope, _mocks>>

(***************************************************************************)
(* The values a comparison meets besides numbers, strings and functions:   *)
(* objects, known by reference, and argument arrays.  An object has a      *)
(* constructor, own enumerable keys in insertion order with their values,  *)
(* and possibly an equals method on its prototype, which accepts, rejects  *)
(* or raises.                                                              *)
(***************************************************************************)
Ref(r) == [t |-> "object", ref |-> r]
Arr(id, items) == [t |-> "array", id |-> id, items |-> items]

Refs ==
    {"o1", "o2", "o3", "o4", "p1", "p2", "p3", "q1", "q2", "e1", "e2",
     "c1", "c2", "t1", "t2", "n1", "n2", "d1", "d2", "d3", "d4", "d5", "d6",
     "u1", "u2"}
Heap ==
    [r \in Refs |->
        CASE r = "o1" -> [ctor |-> "Object", keys |-> <<"a">>,
                          at |-> [a |-> Num(1)], equals |-> "none"]
          [] r = "o2" -> [ctor |-> "Object", keys |-> <<"a">>,
                          at |-> [a |-> Num(1)], equals |-> "none"]
          [] r = "o3" -> [ctor |-> "Object", keys |-> <<"a">>,
                          at |-> [a |-> Num(2)], equals |-> "none"]
          [] r = "p1" -> [ctor |-> "Point", keys |-> <<"a">>,
                          at |-> [a |-> Num(2)], equals |-> "accepts"]
          [] r = "p2" -> [ctor |-> "Point", keys |-> <<"a">>,
                          at |-> [a |-> Num(3)], equals |-> "accepts"]
          [] r = "q1" -> [ctor |-> "Strict", keys |-> <<"a">>,
                          at |-> [a |-> Num(1)], equals |-> "rejects"]
          [] r = "q2" -> [ctor |-> "Strict", keys |-> <<"a">>,
                          at |-> [a |-> Num(1)], equals |-> "rejects"]
          [] r = "e1" -> [ctor |-> "Thing", keys |-> <<"a">>,
                          at |-> [a |-> Num(1)], equals |-> "raises"]
          [] r = "e2" -> [ctor |-> "Thing", keys |-> <<"a">>,
                          at |-> [a |-> Num(1)], equals |-> "raises"]
          [] r = "o4" -> [ctor |-> "Object", keys |-> <<"a", "b">>,
                          at |-> [a |-> Num(1), b |-> Num(2)],
                          equals |-> "none"]
          [] r = "p3" -> [ctor |-> "Point", keys |-> <<"a", "b">>,
                          at |-> [a |-> Num(2), b |-> Num(2)],
                          equals |-> "accepts"]
          \* c1.self = c1 and c2.self = c2; t1.self = t2 and t2.self = t1
          [] r = "c1" -> [ctor |-> "Object", keys |-> <<"self">>,
                          at |-> [self |-> [t |-> "object", ref |-> "c1"]],
                          equals |-> "none"]
          [] r = "c2" -> [ctor |-> "Object", keys |-> <<"self">>,
                          at |-> [self |-> [t |-> "object", ref |-> "c2"]],
                          equals |-> "none"]
          [] r = "t1" -> [ctor |-> "Object", keys |-> <<"self">>,
                          at |-> [self |-> [t |-> "object", ref |-> "t2"]],
                          equals |-> "none"]
          [] r = "t2" -> [ctor |-> "Object", keys |-> <<"self">>,
                          at |-> [self |-> [t |-> "object", ref |-> "t1"]],
                          equals |-> "none"]
          \* n1 = {self: {self: 1}}, without a cycle
          [] r = "n1" -> [ctor |-> "Object", keys |-> <<"self">>,
                          at |-> [self |-> [t |-> "object", ref |-> "n2"]],
                          equals |-> "none"]
          [] r = "n2" -> [ctor |-> "Object", keys |-> <<"self">>,
                          at |-> [self |-> Num(1)], equals |-> "none"]
          \* d1 holds the one object o1 under both of its keys; d2 to d6
          \* hold an object like o1 under x and something else under y
          [] r = "d1" -> [ctor |-> "Object", keys |-> <<"x", "y">>,
                          at |-> [x |-> [t |-> "object", ref |-> "o1"],
                                  y |-> [t |-> "object", ref |-> "o1"]],
                          equals |-> "none"]
          [] r = "d2" -> [ctor |-> "Object", keys |-> <<"x", "y">>,
                          at |-> [x |-> [t |-> "object", ref |-> "o2"],
                                  y |-> [t |-> "object", ref |-> "o3"]],
                          equals |-> "none"]
          [] r = "d3" -> [ctor |-> "Object", keys |-> <<"x", "y">>,
                          at |-> [x |-> [t |-> "object", ref |-> "o2"],
                                  y |-> [t |-> "object", ref |-> "o2"]],
                          equals |-> "none"]
          [] r = "d4" -> [ctor |-> "Object", keys |-> <<"x", "y">>,
                          at |-> [x |-> [t |-> "object", ref |-> "o2"],
                                  y |-> [t |-> "object", ref |-> "p1"]],
                          equals |-> "none"]
          [] r = "d5" -> [ctor |-> "Object", keys |-> <<"x", "y">>,
                          at |-> [x |-> [t |-> "object", ref |-> "o2"],
                                  y |-> JsNull],
                          equals |-> "none"]
          [] r = "d6" -> [ctor |-> "Object", keys |-> <<"x", "y">>,
                          at |-> [x |-> [t |-> "object", ref |-> "o2"],
                                  y |-> [t |-> "object", ref |-> "o4"]],
                          equals |-> "none"]
          \* u1 = {x: undefined} and u2 = {y: undefined}
          [] r = "u1" -> [ctor |-> "Object", keys |-> <<"x">>,
                          at |-> [x |-> Undefined], equals |-> "none"]
          [] r = "u2" -> [ctor |-> "Object", keys |-> <<"y">>,
                          at |-> [y |-> Undefined], equals |-> "none"]]

\* Object.prototype.toString.call(v)
TypeTag(v) ==
    CASE v.t = "number" -> "[object Number]"
      [] v.t = "string" -> "[object String]"
      [] v.t = "function" -> "[object Function]"
      [] v.t = "error" -> "[object Error]"
      [] v.t = "array" -> "[object Array]"
      [] v.t = "regexp" -> "[object RegExp]"
      [] v.t = "date" -> "[object Date]"
      [] v.t = "boolean" -> "[object Boolean]"
      [] OTHER -> "[object Object]"

\* v.constructor
Constructor(v) ==
    CASE v.t = "object" -> Heap[v.ref].ctor
      [] v.t = "array" -> "Array"
      [] v.t = "function" -> "Function"
      [] v.t = "error" -> "Error"
      [] v.t = "regexp" -> "RegExp"
      [] v.t = "date" -> "Date"
      [] OTHER -> v.t

\* objectKeys(arrOrObj): the own enumerable keys, '0', '1', ... for an array
objectKeys(arrOrObj) ==
    CASE arrOrObj.t = "object" -> Heap[arrOrObj.ref].keys
      [] arrOrObj.t = "array" ->
             [i \in 1..Len(arrOrObj.items) |-> ToString(i - 1)]
      [] OTHER -> <<>>

\* v[key], undefined when v has no such key
Get(v, key) ==
    CASE v.t = "object" ->
             IF key \in DOMAIN Heap[v.ref].at
             THEN Heap[v.ref].at[key] ELSE Undefined
      [] v.t = "array" ->
             IF \E i \in 1..Len(v.items) : ToString(i - 1) = key
             THEN v.items[CHOOSE i \in 1..Len(v.items) : ToString(i - 1) = key]
             ELSE Undefined
      [] OTHER -> Undefined

\* as OwnEquals, but no object is found to have an equals function
OwnEquals_None(v) == "none"

\* what a['equals'] is: "none" when it is no function
OwnEquals(v) == IF v.t = "object" THEN Heap[v.ref].equals ELSE "none"

(***************************************************************************)
(* differenceOf (utils.js).  The result of __diff is the outcome, a return *)
(* of undefined (no difference) or of the message, or what a's equals has  *)
(* raised, together with alreadyComparedArray as the call leaves it.       *)
(***************************************************************************)
Same(seen) == [res |-> Return(Undefined), seen |-> seen]
Differs(msg, seen) == [res |-> Return(Str(msg)), seen |-> seen]
EqualsHint ==
    "own equals method failed <- Maybe you want to disable the usage "
    \o "of own equals implementation? "
    \o "[ Use: spy.configure({useOwnEquals: false}) ]"

\* as isNaN, but nothing is found to be NaN
isNaN_Never(v) == FALSE

\* isNaN(v) for a number
isNaN(v) == v = NaN

\* alreadyComparedArray.indexOf(a) !== -1
Visited(alreadyComparedArray, a) ==
    \E i \in 1..Len(alreadyComparedArray) : alreadyComparedArray[i] = a

\* as Revisit, but an object that was visited already is a difference
Revisit_Differs(alreadyComparedArray) ==
    Differs("circular structure", alreadyComparedArray)

\* what __diff returns for an object that it has visited already
Revisit(alreadyComparedArray) == Same(alreadyComparedArray)

RECURSIVE __diff(_, _, _, _, _)
RECURSIVE diffKeys(_, _, _, _, _, _)

\* as __diff, but whether a was visited is asked before anything else about
\* a and b
__diff_GuardFirst(a, b, initial, useOwnEquals, alreadyComparedArray) ==
    IF Identical(a, b)
    THEN Same(alreadyComparedArray)
    ELSE IF Visited(alreadyComparedArray, a)
    THEN Revisit(alreadyComparedArray)
    ELSE IF a = Undefined \/ a = JsNull \/ b = Undefined \/ b = JsNull
    THEN Differs("null or undefined did not match", alreadyComparedArray)
    ELSE IF TypeTag(a) # TypeTag(b)
    THEN Differs("different object types", alreadyComparedArray)
    ELSE IF TypeTag(a) = "[object RegExp]"
    THEN IF a.text = b.text
         THEN Same(alreadyComparedArray)
         ELSE Differs("different regexp", alreadyComparedArray)
    ELSE IF TypeTag(a) = "[object String]"
    THEN Differs("different string", alreadyComparedArray)
    ELSE IF TypeTag(a) = "[object Number]"
    THEN IF isNaN(a) /\ isNaN(b)
         THEN Same(alreadyComparedArray)
         ELSE Differs("different number", alreadyComparedArray)
    ELSE IF TypeTag(a) = "[object Date]"
    THEN IF Identical(a.time, b.time)
         THEN Same(alreadyComparedArray)
         ELSE Differs("different date", alreadyComparedArray)
    ELSE IF TypeTag(a) = "[object Boolean]"
    THEN Differs("different bool", alreadyComparedArray)
    ELSE IF Constructor(a) # Constructor(b)
    THEN Differs("different constructor", alreadyComparedArray)
    ELSE IF Len(objectKeys(a)) # Len(objectKeys(b))
    THEN Differs("different key length", alreadyComparedArray)
    ELSE IF useOwnEquals /\ OwnEquals(a) # "none"
    THEN CASE OwnEquals(a) = "accepts" -> Same(alreadyComparedArray)
           [] OwnEquals(a) = "rejects" ->
                  Differs(EqualsHint, alreadyComparedArray)
           [] OTHER -> [res |-> Throw(Err("equals raised")),
                        seen |-> alreadyComparedArray]
    ELSE IF Visited(alreadyComparedArray, a)
    THEN Revisit(alreadyComparedArray)
    ELSE diffKeys(a, b, initial, useOwnEquals,
                  Append(alreadyComparedArray, a), 1)

__diff(a, b, initial, useOwnEquals, alreadyComparedArray) ==
    IF Identical(a, b)
    THEN Same(alreadyComparedArray)
    ELSE IF a = Undefined \/ a = JsNull \/ b = Undefined \/ b = JsNull
    THEN Differs("null or undefined did not match", alreadyComparedArray)
    ELSE IF TypeTag(a) # TypeTag(b)
    THEN Differs("different object types", alreadyComparedArray)
    ELSE IF TypeTag(a) = "[object RegExp]"
    THEN IF a.text = b.text
         THEN Same(alreadyComparedArray)
         ELSE Differs("different regexp", alreadyComparedArray)
    ELSE IF TypeTag(a) = "[object String]"
    THEN Differs("different string", alreadyComparedArray)
    ELSE IF TypeTag(a) = "[object Number]"
    THEN IF isNaN(a) /\ isNaN(b)
         THEN Same(alreadyComparedArray)
         ELSE Differs("different number", alreadyComparedArray)
    ELSE IF TypeTag(a) = "[object Date]"
    THEN IF Identical(a.time, b.time)
         THEN Same(alreadyComparedArray)
         ELSE Differs("different date", alreadyComparedArray)
    ELSE IF TypeTag(a) = "[object Boolean]"
    THEN Differs("different bool", alreadyComparedArray)
    ELSE IF Constructor(a) # Constructor(b)
    THEN Differs("different constructor", alreadyComparedArray)
    ELSE IF Len(objectKeys(a)) # Len(objectKeys(b))
    THEN Differs("different key length", alreadyComparedArray)
    ELSE IF useOwnEquals /\ OwnEquals(a) # "none"
    THEN CASE OwnEquals(a) = "accepts" -> Same(alreadyComparedArray)
           [] OwnEquals(a) = "rejects" ->
                  Differs(EqualsHint, alreadyComparedArray)
           [] OTHER -> [res |-> Throw(Err("equals raised")),
                        seen |-> alreadyComparedArray]
    ELSE IF Visited(alreadyComparedArray, a)
    THEN Revisit(alreadyComparedArray)
    ELSE diffKeys(a, b, initial, useOwnEquals,
                  Append(alreadyComparedArray, a), 1)

\* the loop over aKeys from its i-th key on
diffKeys(a, b, initial, useOwnEquals, alreadyComparedArray, i) ==
    IF i > Len(objectKeys(a))
    THEN Same(alreadyComparedArray)
    ELSE LET key == objectKeys(a)[i]
             d == __diff(Get(a, key), Get(b, key), FALSE, useOwnEquals,
                         alreadyComparedArray)
         IN  IF d.res.type = "throw"
             THEN d
             ELSE IF d.res.v # Undefined
             THEN Differs((IF initial THEN "--> " \o key ELSE key)
                              \o " / " \o d.res.v.v, d.seen)
             ELSE diffKeys(a, b, initial, useOwnEquals, d.seen, i + 1)

differenceOf(a, b, config) ==
    __diff(a, b, TRUE, config.useOwnEquals, <<>>).res

(***************************************************************************)
(* Queries on the call log.                                                *)
(***************************************************************************)
getCallCount(spy) == Len(spy.calls)

\* serialize (serializer.js is not among the sources): a rendering that
\* tells the values of the model apart
serializeValue(v) ==
    CASE v.t = "number" /\ v # NaN /\ IsInteger(v) -> ToString(v.v)
      [] v.t = "string" -> "'" \o v.v \o "'"
      [] v.t = "object" -> v.ref
      [] OTHER -> v.t

RECURSIVE serializeFrom(_, _)
serializeFrom(items, i) ==
    IF i > Len(items) THEN ""
    ELSE (IF i > 1 THEN ", " ELSE "") \o serializeValue(items[i])
             \o serializeFrom(items, i + 1)

serialize(items) == "[" \o serializeFrom(items, 1) \o "]"

RECURSIVE showCallsFrom(_, _, _)
\* the loop of showCallArguments from the call i (1-based) on
showCallsFrom(madeCalls, additionalInformation, i) ==
    IF i > Len(madeCalls) THEN ""
    ELSE "call " \o ToString(i - 1) \o ": " \o serialize(madeCalls[i].args)
         \o "\n"
         \o (IF i <= Len(additionalInformation)
                /\ additionalInformation[i] # Undefined
             THEN "        " \o additionalInformation[i].v \o "\n"
             ELSE "")
         \o showCallsFrom(madeCalls, additionalInformation, i + 1)

showCallArguments(spy, additionalInformation) ==
    IF Len(spy.calls) = 0
    THEN spy.name \o " was never called!\n"
    ELSE showCallsFrom(spy.calls, additionalInformation, 1)

\* the failure of getCallArguments for a callNr it finds not valid
NotValid(spy) ==
    Err("The provided callNr was not valid. Made calls for "
        \o spy.name \o ": " \o showCallArguments(spy, <<>>))

\* callNr is a number: Num(n), or Half(n) for one that is no integer.  A
\* negative integer passes the check; madeCalls[callNr] is then undefined
\* and reading its args fails.
getCallArguments(spy, callNr) ==
    IF ~IsInteger(callNr) \/ callNr.v >= Len(spy.calls)
    THEN Throw(NotValid(spy))
    ELSE IF callNr.v < 0
    THEN Throw(Err("TypeError"))
    ELSE Return(spy.calls[callNr.v + 1].args)

\* getCallArgument(callNr, argNr): an index outside the list reads undefined
getCallArgument(spy, callNr, argNr) ==
    LET r == getCallArguments(spy, callNr)
    IN  IF r.type = "throw" THEN r
        ELSE IF argNr \in 0..(Len(r.v) - 1)
        THEN Return(r.v[argNr + 1])
        ELSE Return(Undefined)

(***************************************************************************)
(* The assertions.  Each is the outcome of the call on the spy: a return   *)
(* of undefined, the assertion failure, or what a comparison has raised.   *)
(***************************************************************************)
NeverCalled(spy) == Err(spy.name \o " was never called!")

\* wasCalled(callCount): callCount is None or Some(n)
wasCalled(spy, callCount) ==
    LET madeCalls == Len(spy.calls)
    IN  IF callCount # None
        THEN IF madeCalls # callCount[1]
             THEN Throw(Err(spy.name \o " was called " \o ToString(madeCalls)
                        \o " times, but there were expected "
                        \o ToString(callCount[1])
                        \o " calls. Actually there were: "
                        \o showCallArguments(spy, <<>>)))
             ELSE Return(Undefined)
        ELSE IF madeCalls = 0
        THEN Throw(NeverCalled(spy))
        ELSE Return(Undefined)

wasNotCalled(spy) ==
    IF Len(spy.calls) # 0
    THEN Throw(Err(spy.name \o " was not considered to be called. "
                   \o "Actually there were: " \o showCallArguments(spy, <<>>)))
    ELSE Return(Undefined)

\* the argument arrays of a recorded call and of an assertion: two objects
Actual(call) == Arr("actual", call.args)
Expected(args) == Arr("expected", args)

RECURSIVE wasCalledWithFrom(_, _, _, _)

\* as wasCalledWithFrom, but only the latest call is compared
wasCalledWithFrom_LatestOnly(spy, args, i, diffInfo) ==
    LET diff == differenceOf(Actual(spy.calls[Len(spy.calls)]),
                             Expected(args), spy.config)
    IN  IF diff.type = "throw"
        THEN diff
        ELSE IF diff.v = Undefined
        THEN Return(Undefined)
        ELSE Throw(Err(spy.name \o " was considered to be called with the "
                   \o "following arguments: --> " \o serialize(args)
                   \o " Actually there were: "
                   \o showCallArguments(spy, <<diff.v>>)))

\* the loop of wasCalledWith from the call i (1-based) on
wasCalledWithFrom(spy, args, i, diffInfo) ==
    IF i > Len(spy.calls)
    THEN Throw(Err(spy.name \o " was considered to be called with the "
                   \o "following arguments: --> " \o serialize(args)
                   \o " Actually there were: "
                   \o showCallArguments(spy, diffInfo)))
    ELSE LET diff == differenceOf(Actual(spy.calls[i]), Expected(args),
                                  spy.config)
         IN  IF diff.type = "throw"
             THEN diff
             ELSE IF diff.v = Undefined
             THEN Return(Undefined)
             ELSE wasCalledWithFrom(spy, args, i + 1, Append(diffInfo, diff.v))

wasCalledWith(spy, args) ==
    IF Len(spy.calls) = 0
    THEN Throw(NeverCalled(spy))
    ELSE wasCalledWithFrom(spy, args, 1, <<>>)

\* catch (e) takes whatever wasCalledWith throws
wasNotCalledWith(spy, args) ==
    LET errorOccurred == wasCalledWith(spy, args).type = "throw"
    IN  IF ~errorOccurred
        THEN Throw(Err(spy.name \o " was called unexpectedly with the "
                       \o "following arguments: --> " \o serialize(args)))
        ELSE Return(Undefined)

\* Array.isArray(arg) ? arg : [arg]
Wrapped(arg) == IF arg.t = "array" THEN arg ELSE Arr("wrapped", <<arg>>)

RECURSIVE historyDiffs(_, _, _, _)
\* as historyDiffs, but only the first call is compared
historyDiffs_FirstOnly(spy, callHistory, i, diffInfo) ==
    IF i > Len(spy.calls) \/ i > 1
    THEN Return(diffInfo)
    ELSE LET diff == differenceOf(Actual(spy.calls[i]),
                                  Wrapped(callHistory[i]), spy.config)
         IN  IF diff.type = "throw"
             THEN diff
             ELSE historyDiffs(spy, callHistory, i + 1,
                               Append(diffInfo, diff.v))

\* madeCalls.map(...) from the call i (1-based) on: the diffs, or what a
\* comparison has raised
historyDiffs(spy, callHistory, i, diffInfo) ==
    IF i > Len(spy.calls)
    THEN Return(diffInfo)
    ELSE LET diff == differenceOf(Actual(spy.calls[i]),
                                  Wrapped(callHistory[i]), spy.config)
         IN  IF diff.type = "throw"
             THEN diff
             ELSE historyDiffs(spy, callHistory, i + 1,
                               Append(diffInfo, diff.v))

RECURSIVE serializeHistory(_, _)
serializeHistory(callHistory, i) ==
    IF i > Len(callHistory) THEN ""
    ELSE "call " \o ToString(i - 1) \o ": "
         \o serialize(Wrapped(callHistory[i]).items) \o "\n"
         \o serializeHistory(callHistory, i + 1)

\* the failure of hasCallHistory for a history of callCount entries
HistoryLength(spy, callCount) ==
    Err(spy.name \o " was called " \o ToString(Len(spy.calls))
        \o " times, but the expected call history includes exactly "
        \o ToString(callCount) \o " calls. Actually there were: "
        \o showCallArguments(spy, <<>>))

\* hasCallHistory(...callHistory): each entry is an array or a bare value
hasCallHistory(spy, callHistory) ==
    IF Len(spy.calls) # Len(callHistory)
    THEN Throw(HistoryLength(spy, Len(callHistory)))
    ELSE LET diffInfo == historyDiffs(spy, callHistory, 1, <<>>)
             hasErrors == \E i \in 1..Len(diffInfo.v) :
                              diffInfo.v[i] # Undefined
         IN  IF diffInfo.type = "throw"
             THEN diffInfo
             ELSE IF hasErrors
             THEN Throw(Err(spy.name \o " was considered to be called with "
                        \o "the following arguments in the given order: "
                        \o serializeHistory(callHistory, 1)
                        \o " Actually there were: "
                        \o showCallArguments(spy, diffInfo.v)))
             ELSE Return(Undefined)

(***************************************************************************)
(* Calling a spy: record the call, then run the behaviour.                 *)
(***************************************************************************)
\* as Invoke, but the call is recorded after the behaviour has returned
Invoke_RecordAfter(s, args) ==
    LET spy == spies[s]
        calls == Append(spy.calls, [args |-> args])
        original == getOriginalMethod(register, spy.index)
        r == RunFunc(spy.func, args, Len(spy.calls), original, spy.name)
    IN  /\ Tick
        /\ UNCHANGED mockVars
        /\ spies' = [spies EXCEPT
                ![s].calls = IF r.res.type = "throw" THEN spy.calls ELSE calls,
                ![s].func = r.func]
        /\ hist' = [hist EXCEPT ![s].since = @ + 1]
        /\ last' = [op |-> "invoke", spy |-> s, input |-> args, res |-> r.res,
                    prior |-> Len(spy.calls), funcBefore |-> spy.func,
                    original |-> original,
                    forwarded |-> r.forwarded, ranOld |-> r.ranOld]
        /\ UNCHANGED <<register, obj>>

Invoke(s, args) ==
    LET spy == spies[s]
        calls == Append(spy.calls, [args |-> args])
        original == getOriginalMethod(register, spy.index)
        r == RunFunc(spy.func, args, Len(calls), original, spy.name)
    IN  /\ Tick
        /\ UNCHANGED mockVars
        /\ spies' = [spies EXCEPT ![s].calls = calls, ![s].func = r.func]
        /\ hist' = [hist EXCEPT ![s].since = @ + 1]
        /\ last' = [op |-> "invoke", spy |-> s, input |-> args, res |-> r.res,
                    prior |-> Len(spy.calls), funcBefore |-> spy.func,
                    original |-> original,
                    forwarded |-> r.forwarded, ranOld |-> r.ranOld]
        /\ UNCHANGED <<register, obj>>

(***************************************************************************)
(* Behaviour configuration.  Each operation returns the spy itself.        *)
(***************************************************************************)
FuncLists == {<<>>, <<UserFn("f1"), UserFn("f2")>>, <<UserFn("fRaise")>>}
ValueLists == {<<Num(1), Num(2)>>}
ResolveLists == {<<>>}
ErrorLists == {<<Str("boom"), Err("E")>>}
Errors == {Str("boom"), Err("E")}

\* as SetFunc, but a new calls-closure goes on with the counter of the one
\* it replaces
SetFunc_SharedCounter(op, s, input, func) ==
    /\ Tick
    /\ UNCHANGED mockVars
    /\ spies' = [spies EXCEPT ![s].func =
            IF func.kind = "calls" /\ spies[s].func.kind = "calls"
            THEN [func EXCEPT !.counter = spies[s].func.counter]
            ELSE func]
    /\ hist' = [hist EXCEPT
            ![s].cfg = [op |-> op, input |-> input],
            ![s].since = 0,
            ![s].overwrote = hist[s].cfg.op # "none" /\ hist[s].since > 0]
    /\ last' = Done(op, s, input, Return(SpyRef(s)))
    /\ UNCHANGED <<register, obj>>

\* the common part: install func as the spy's behaviour
SetFunc(op, s, input, func) ==
    /\ Tick
    /\ UNCHANGED mockVars
    /\ spies' = [spies EXCEPT ![s].func = func]
    /\ hist' = [hist EXCEPT
            ![s].cfg = [op |-> op, input |-> input],
            ![s].since = 0,
            ![s].overwrote = hist[s].cfg.op # "none" /\ hist[s].since > 0]
    /\ last' = Done(op, s, input, Return(SpyRef(s)))
    /\ UNCHANGED <<register, obj>>

calls(s, funcs) == SetFunc("calls", s, funcs, CallsFunc(funcs))

returns(s, vals) == SetFunc("returns", s, vals, ReturnsFunc(vals))

resolves(s, vals) == SetFunc("resolves", s, vals, ResolvesFunc(vals))

rejects(s, msgOrErrors) ==
    SetFunc("rejects", s, msgOrErrors, RejectsFunc(msgOrErrors))

throws(s, msgOrError) ==
    SetFunc("throws", s, msgOrError, ThrowsFunc(msgOrError))

transparentAfter(s, callCount) ==
    SetFunc("transparentAfter", s, callCount,
            TransparentAfterFunc(spies[s].func, callCount))

\* as transparent, but with transparentAfter(1)
transparent_AfterOne(s) ==
    SetFunc("transparent", s, 0, TransparentAfterFunc(spies[s].func, 1))

transparent(s) ==
    SetFunc("transparent", s, 0, TransparentAfterFunc(spies[s].func, 0))

(***************************************************************************)
(* reset, restore, configure.                                              *)
(***************************************************************************)
\* as reset, but the behaviour is cleared with the log
reset_ClearsBehaviour(s) ==
    /\ Tick
    /\ UNCHANGED mockVars
    /\ spies' = [spies EXCEPT ![s].calls = <<>>, ![s].func = NoopFunc]
    /\ last' = [Done("reset", s, <<>>, Return(SpyRef(s)))
                    EXCEPT !.prior = Len(spies[s].calls)]
    /\ UNCHANGED <<register, obj, hist>>

\* as reset, but the spy is restored as well
reset_AlsoRestores(s) ==
    LET r == registryRestore(register, obj, spies[s].index)
    IN  /\ Tick
        /\ UNCHANGED mockVars
        /\ spies' = [spies EXCEPT ![s].calls = <<>>]
        /\ register' = r.reg
        /\ obj' = r.obj
        /\ last' = [Done("reset", s, <<>>, Return(SpyRef(s)))
                        EXCEPT !.prior = Len(spies[s].calls)]
        /\ UNCHANGED hist

reset(s) ==
    /\ Tick
    /\ UNCHANGED mockVars
    /\ spies' = [spies EXCEPT ![s].calls = <<>>]
    /\ last' = [Done("reset", s, <<>>, Return(SpyRef(s)))
                    EXCEPT !.prior = Len(spies[s].calls)]
    /\ UNCHANGED <<register, obj, hist>>

\* as restore, but the original is written back whenever the handle is
\* known, active or not
restore_Unconditional(s) ==
    /\ Tick
    /\ scope' = scope
    /\ _mocks' = IF Truthy(spies[s].config.persistent) THEN _mocks
               ELSE onRestore(_mocks, IF Known(register, spies[s].index)
                                      THEN {s} ELSE {})
    /\ IF Truthy(spies[s].config.persistent)
       THEN /\ last' = Done("restore", s, <<>>,
                            Throw(Err("can not be restored")))
            /\ UNCHANGED <<spies, register, obj, hist>>
       ELSE LET h == spies[s].index
            IN  /\ register' = IF Known(register, h)
                               THEN [register EXCEPT ![h].active = FALSE]
                               ELSE register
                /\ obj' = IF Known(register, h)
                          THEN [obj EXCEPT ![register[h].key] =
                                               register[h].original]
                          ELSE obj
                /\ last' = Done("restore", s, <<>>, Return(SpyRef(s)))
                /\ UNCHANGED <<spies, hist>>

\* as restore, but the registry restores before the persistent check
restore_ThrowsLate(s) ==
    LET r == registryRestore(register, obj, spies[s].index)
    IN  /\ Tick
        /\ scope' = scope
        /\ _mocks' = onRestore(_mocks, Restored(register, s))
        /\ register' = r.reg
        /\ obj' = r.obj
        /\ last' = Done("restore", s, <<>>,
                        IF Truthy(spies[s].config.persistent)
                        THEN Throw(Err("can not be restored"))
                        ELSE Return(SpyRef(s)))
        /\ UNCHANGED <<spies, hist>>

restore(s) ==
    /\ Tick
    /\ scope' = scope
    /\ _mocks' = IF Truthy(spies[s].config.persistent) THEN _mocks
               ELSE onRestore(_mocks, Restored(register, s))
    /\ IF Truthy(spies[s].config.persistent)
       THEN /\ last' = Done("restore", s, <<>>,
                            Throw(Err("can not be restored")))
            /\ UNCHANGED <<spies, register, obj, hist>>
       ELSE LET r == registryRestore(register, obj, spies[s].index)
            IN  /\ register' = r.reg
                /\ obj' = r.obj
                /\ last' = Done("restore", s, <<>>, Return(SpyRef(s)))
                /\ UNCHANGED <<spies, hist>>

Settings == {None, Some(TRUE), Some(FALSE)}
Configs ==
    {[useOwnEquals |-> None, persistent |-> Some(TRUE)],
     [useOwnEquals |-> None, persistent |-> Some(FALSE)],
     [useOwnEquals |-> Some(FALSE), persistent |-> Some(TRUE)]}

configure(s, config) ==
    LET spy == spies[s]
        useOwnEquals ==
            IF config.useOwnEquals # None
            THEN config.useOwnEquals[1]
            ELSE spy.config.useOwnEquals
    IN  /\ Tick
        /\ UNCHANGED mockVars
        /\ IF config.persistent # None /\ Falsy(spy.index)
           THEN /\ spies' = [spies EXCEPT ![s].config.useOwnEquals = useOwnEquals]
                /\ last' = Done("configure", s, config,
                        Throw(Err("can not be configured to be persistent")))
                /\ UNCHANGED <<register, obj, hist>>
           ELSE /\ spies' = [spies EXCEPT
                       ![s].config.useOwnEquals = useOwnEquals,
                       ![s].config.persistent =
                           IF config.persistent # None
                           THEN config.persistent ELSE @]
                /\ register' =
                       IF config.persistent # None
                       THEN persist(register, spy.index, config.persistent[1])
                       ELSE register
                /\ last' = Done("configure", s, config, Return(SpyRef(s)))
                /\ UNCHANGED <<obj, hist>>

(***************************************************************************)
(* The test writes a value to a property that no spy currently occupies.   *)
(***************************************************************************)
Assignable == {Fn("other")}

AssignProp(p, v) ==
    /\ Tick
    /\ UNCHANGED mockVars
    /\ \A h \in 1..Len(register) : ~(register[h].active /\ register[h].key = p)
    /\ obj[p] # v
    /\ obj' = [obj EXCEPT ![p] = v]
    /\ last' = Done("assign", 0, p, Return(v))
    /\ UNCHANGED <<spies, register, hist>>

(***************************************************************************)
(* Spy.restoreAll().  The registry restores, in registration order, every  *)
(* entry that is active and not persistent.                                *)
(***************************************************************************)
RECURSIVE registryRestoreAll(_, _, _)
\* the register and the object after the entries from handle h on
registryRestoreAll(reg, o, h) ==
    IF h > Len(reg)
    THEN [reg |-> reg, obj |-> o]
    ELSE IF reg[h].persistent
    THEN registryRestoreAll(reg, o, h + 1)
    ELSE LET r == registryRestore(reg, o, h)
         IN  registryRestoreAll(r.reg, r.obj, h + 1)

\* the handles a bulk restore acts on
Restorable(reg) ==
    {h \in 1..Len(reg) : reg[h].active /\ ~reg[h].persistent}

\* as restoreAll, but persistent entries are restored as well
restoreAll_EveryEntry ==
    /\ Tick
    /\ scope' = scope
    /\ _mocks' = onRestore(_mocks, {s \in SpyIds :
                   Known(register, spies[s].index)
                   /\ register[spies[s].index].active})
    /\ register' = [h \in 1..Len(register) |->
                       [register[h] EXCEPT !.active = FALSE]]
    /\ obj' = [p \in DOMAIN obj |->
                  IF \E h \in 1..Len(register) :
                         register[h].active /\ register[h].key = p
                  THEN register[CHOOSE h \in 1..Len(register) :
                           register[h].active /\ register[h].key = p].original
                  ELSE obj[p]]
    /\ last' = [Done("restoreAll", 0, <<>>, Return(Undefined))
                    EXCEPT !.prior = Cardinality(Restorable(register))]
    /\ UNCHANGED <<spies, hist>>

restoreAll ==
    LET r == registryRestoreAll(register, obj, 1)
    IN  /\ Tick
        /\ scope' = scope
        /\ _mocks' = onRestore(_mocks, {s \in SpyIds :
                       spies[s].index \in Restorable(register)})
        /\ register' = r.reg
        /\ obj' = r.obj
        /\ last' = [Done("restoreAll", 0, <<>>, Return(Undefined))
                        EXCEPT !.prior = Cardinality(Restorable(register))]
        /\ UNCHANGED <<spies, hist>>


(***************************************************************************)
(* The default hooks of the test suite: before each test Spy.initMocks,    *)
(* after each test Spy.restoreAll and then Spy.resetAll.                   *)
(***************************************************************************)
\* Spy.resetAll(): every spy ever created is reset
resetAll(ss) == [s \in 1..Len(ss) |-> [ss[s] EXCEPT !.calls = <<>>]]

\* defaultHooks.beforeEach, called without a scope; isJest is Env.isJest
beforeEach(isJest) ==
    LET r == initMocksOf(World, None, isJest)
    IN  /\ Tick
        /\ spies' = r.spies
        /\ register' = r.register
        /\ obj' = r.obj
        /\ hist' = r.hist
        /\ _mocks' = r.mocks
        /\ last' = [Done("beforeEach", 0, None, r.res)
                        EXCEPT !.prior = r.spyOnCalls]
        /\ UNCHANGED scope

\* defaultHooks.afterEach
afterEach ==
    LET r == registryRestoreAll(register, obj, 1)
    IN  /\ Tick
        /\ scope' = scope
        /\ _mocks' = onRestore(_mocks, {s \in SpyIds :
                       spies[s].index \in Restorable(register)})
        /\ register' = r.reg
        /\ obj' = r.obj
        /\ spies' = resetAll(spies)
        /\ last' = [Done("afterEach", 0, <<>>, Return(Undefined))
                        EXCEPT !.prior = Cardinality(Restorable(register))]
        /\ UNCHANGED hist

(***************************************************************************)
(* Spy.mockModule(specifier, ...exportNames) for a specifier that cannot   *)
(* be resolved.  A specifier is the sequence of its path segments; its     *)
(* text joins them with "/".                                               *)
(***************************************************************************)
RECURSIVE Text(_)
Text(specifier) ==
    IF Len(specifier) = 1
    THEN specifier[1]
    ELSE specifier[1] \o "/" \o Text(Tail(specifier))

\* the packages that are installed next to the caller
Installed == {"rollup"}

\* specifiers that do not resolve: a package that is not installed, and
\* paths that an installed package does not have
Unresolvable ==
    {<<"foo">>, <<"rollup", "foo">>, <<"rollup", "foo", "bar">>}

CouldNotFind(specifier) ==
    Err("spy4js: Could not find given module: \"" \o Text(specifier) \o "\"")

\* the module loader's own error
CannotFindModule(specifier) ==
    Err("Cannot find module '<root>/node_modules/" \o Text(specifier) \o "'")

NoCommonJS ==
    Err("spy4js: Mocking a module only works if your test runner executes "
        \o "with CommonJS")

\* as mockModuleError, but a path of an installed package is reported as
\* every other specifier
mockModuleError_OneMessage(specifier, isCJS) ==
    IF ~isCJS THEN NoCommonJS ELSE CouldNotFind(specifier)

\* what mockModule raises for an unresolvable specifier; isCJS is
\* _testSuite.isCJS
mockModuleError(specifier, isCJS) ==
    IF ~isCJS
    THEN NoCommonJS
    ELSE IF specifier[1] \in Installed /\ Len(specifier) = 2
    THEN CannotFindModule(specifier)
    ELSE CouldNotFind(specifier)

mockModule(specifier, isCJS) ==
    /\ Tick
    /\ last' = [Done("mockModule", 0, Text(specifier),
                     Throw(mockModuleError(specifier, isCJS)))
                    EXCEPT !.prior = IF isCJS THEN 1 ELSE 0]
    /\ UNCHANGED <<spies, register, obj, hist, scope, _mocks>>

(***************************************************************************)
(* The assertions and queries a test makes on a spy.  Each leaves its      *)
(* outcome in `last`.                                                      *)
(***************************************************************************)
CallCounts == {None, Some(0), Some(1)}
CallNrs == {Num(-1), Num(0), Num(1), Half(0)}
ArgNrs == {0, 1}
ObjectArgLists == {<<Ref("o1")>>, <<Ref("p1")>>, <<Ref("e1")>>}
ExpectedLists ==
    {<<Num(1)>>, <<Num(1), Num(2)>>,
     <<Ref("o2")>>, <<Ref("p2")>>, <<Ref("e2")>>}
Histories ==
    {<<>>, <<Num(1)>>, <<Ref("e2")>>,
     <<Num(1), Arr("entry", <<Num(1), Num(2)>>)>>,
     <<Ref("o3"), Ref("e2")>>}
EqualsConfigs ==
    {[useOwnEquals |-> Some(FALSE), persistent |-> None],
     [useOwnEquals |-> Some(TRUE), persistent |-> None]}

WasCalled(s, callCount) ==
    /\ Tick
    /\ UNCHANGED mockVars
    /\ last' = Done("wasCalled", s, callCount, wasCalled(spies[s], callCount))
    /\ UNCHANGED <<spies, register, obj, hist>>

WasNotCalled(s) ==
    /\ Tick
    /\ UNCHANGED mockVars
    /\ last' = Done("wasNotCalled", s, <<>>, wasNotCalled(spies[s]))
    /\ UNCHANGED <<spies, register, obj, hist>>

WasCalledWith(s, args) ==
    /\ Tick
    /\ UNCHANGED mockVars
    /\ last' = Done("wasCalledWith", s, args, wasCalledWith(spies[s], args))
    /\ UNCHANGED <<spies, register, obj, hist>>

WasNotCalledWith(s, args) ==
    /\ Tick
    /\ UNCHANGED mockVars
    /\ last' = Done("wasNotCalledWith", s, args,
                    wasNotCalledWith(spies[s], args))
    /\ UNCHANGED <<spies, register, obj, hist>>

HasCallHistory(s, callHistory) ==
    /\ Tick
    /\ UNCHANGED mockVars
    /\ last' = Done("hasCallHistory", s, callHistory,
                    hasCallHistory(spies[s], callHistory))
    /\ UNCHANGED <<spies, register, obj, hist>>

\* as GetCallArguments, but the call that is read is taken out of the log
GetCallArguments_TakesCall(s, callNr) ==
    /\ Tick
    /\ UNCHANGED mockVars
    /\ last' = Done("getCallArguments", s, callNr,
                    getCallArguments(spies[s], callNr))
    /\ spies' = [spies EXCEPT ![s].calls =
                    IF getCallArguments(spies[s], callNr).type = "return"
                    THEN SubSeq(@, 1, callNr.v) \o SubSeq(@, callNr.v + 2, Len(@))
                    ELSE @]
    /\ UNCHANGED <<register, obj, hist>>

GetCallArguments(s, callNr) ==
    /\ Tick
    /\ UNCHANGED mockVars
    /\ last' = Done("getCallArguments", s, callNr,
                    getCallArguments(spies[s], callNr))
    /\ UNCHANGED <<spies, register, obj, hist>>

GetCallArgument(s, callNr, argNr) ==
    /\ Tick
    /\ UNCHANGED mockVars
    /\ last' = Done("getCallArgument", s, <<callNr, Num(argNr)>>,
                    getCallArgument(spies[s], callNr, argNr))
    /\ UNCHANGED <<spies, register, obj, hist>>

GetCallCount(s) ==
    /\ Tick
    /\ UNCHANGED mockVars
    /\ last' = Done("getCallCount", s, <<>>,
                    Return(Num(getCallCount(spies[s]))))
    /\ UNCHANGED <<spies, register, obj, hist>>

ShowCallArguments(s) ==
    /\ Tick
    /\ UNCHANGED mockVars
    /\ last' = Done("showCallArguments", s, <<>>,
                    Return(Str(showCallArguments(spies[s], <<>>))))
    /\ UNCHANGED <<spies, register, obj, hist>>

Next ==
    \/ \E name \in {""} : NewSpy(name)
    \/ \E m \in Props : on(m)
    \/ \E s \in SpyIds, args \in ArgLists : Invoke(s, args)
    \/ \E s \in SpyIds, funcs \in FuncLists : calls(s, funcs)
    \/ \E s \in SpyIds, vals \in ValueLists : returns(s, vals)
    \/ \E s \in SpyIds, vals \in ResolveLists : resolves(s, vals)
    \/ \E s \in SpyIds, es \in ErrorLists : rejects(s, es)
    \/ \E s \in SpyIds, e \in Errors : throws(s, e)
    \/ \E s \in SpyIds, n \in 0..MaxCallCount : transparentAfter(s, n)
    \/ \E s \in SpyIds : transparent(s)
    \/ \E s \in SpyIds : reset(s)
    \/ \E s \in SpyIds : restore(s)
    \/ \E s \in SpyIds, config \in Configs : configure(s, config)
    \/ \E p \in {"f"}, v \in Assignable : AssignProp(p, v)

Spec == Init /\ [][Next]_vars

(***************************************************************************)
(* The operations that touch the registry: wrapping, restoring, marking    *)
(* persistent, and the invocations in between.                             *)
(***************************************************************************)
RegistryNext ==
    \/ \E name \in {""} : NewSpy(name)
    \/ \E m \in Props \cup GetterOnly : on(m)
    \/ \E s \in SpyIds, args \in ArgLists : Invoke(s, args)
    \/ \E s \in SpyIds : transparent(s)
    \/ \E s \in SpyIds : restore(s)
    \/ \E s \in SpyIds, config \in Configs : configure(s, config)
    \/ restoreAll

RegistrySpec == Init /\ [][RegistryNext]_vars

(***************************************************************************)
(* A test that calls spies and then asserts on them.                       *)
(***************************************************************************)
AssertNext ==
    \/ \E name \in {""} : NewSpy(name)
    \/ \E m \in {"f"} : on(m)
    \/ \E s \in SpyIds, args \in ArgLists \cup ObjectArgLists : Invoke(s, args)
    \/ \E s \in SpyIds, config \in EqualsConfigs : configure(s, config)
    \/ \E s \in SpyIds, callCount \in CallCounts : WasCalled(s, callCount)
    \/ \E s \in SpyIds : WasNotCalled(s)
    \/ \E s \in SpyIds, args \in ExpectedLists : WasCalledWith(s, args)
    \/ \E s \in SpyIds, args \in ExpectedLists : WasNotCalledWith(s, args)
    \/ \E s \in SpyIds, h \in Histories : HasCallHistory(s, h)
    \/ \E s \in SpyIds, callNr \in CallNrs : GetCallArguments(s, callNr)
    \/ \E s \in SpyIds, callNr \in CallNrs, argNr \in ArgNrs :
           GetCallArgument(s, callNr, argNr)
    \/ \E s \in SpyIds : GetCallCount(s)
    \/ \E s \in SpyIds : ShowCallArguments(s)

AssertSpec == Init /\ [][AssertNext]_vars

(***************************************************************************)
(* A test that declares mocks in scopes, binds them and calls them.        *)
(***************************************************************************)
Scopings == {None, Some("A"), Some("B")}
ScopeNames == {defaultScope, "A", "B"}
MaxMocks == 2
Declarations ==
    {[methods |-> <<"f">>, callsFactory |-> None, moduleName |-> None],
     [methods |-> <<"f", "g">>, callsFactory |-> Some("factory"),
      moduleName |-> None],
     [methods |-> <<"g", "r">>, callsFactory |-> None,
      moduleName |-> Some("./mod")],
     [methods |-> <<"r">>, callsFactory |-> None, moduleName |-> None]}

MockNext ==
    \/ \E scoping \in Scopings : setScope(scoping)
    \/ \E decl \in Declarations :
           /\ Len(_mocks[scope]) < MaxMocks
           /\ createMock(decl.methods, decl.callsFactory, decl.moduleName)
    \/ \E scoping \in Scopings, isJest \in BOOLEAN : initMocks(scoping, isJest)
    \/ \E sc \in ScopeNames, d \in 1..MaxMocks, method \in Props \cup GetterOnly :
           CallPlaceholder(sc, d, method)
    \/ \E s \in SpyIds, args \in {<<Num(1)>>} : Invoke(s, args)
    \/ \E s \in SpyIds : restore(s)
    \/ restoreAll

MockSpec == Init /\ [][MockNext]_vars

(***************************************************************************)
(* A test suite with the default hooks around tests that declare mocks,    *)
(* make spies, call them and make them persistent.                         *)
(***************************************************************************)
HookDeclarations ==
    {decl \in Declarations : decl.methods \in {<<"f">>, <<"f", "g">>}}

HookNext ==
    \/ \E name \in {""} : NewSpy(name)
    \/ \E m \in {"g"} : on(m)
    \/ \E decl \in HookDeclarations :
           /\ Len(_mocks[scope]) < MaxMocks
           /\ createMock(decl.methods, decl.callsFactory, decl.moduleName)
    \/ \E isJest \in {FALSE} : beforeEach(isJest)
    \/ \E specifier \in Unresolvable, isCJS \in BOOLEAN :
           mockModule(specifier, isCJS)
    \/ \E s \in SpyIds, args \in {<<Num(1)>>} : Invoke(s, args)
    \/ \E s \in SpyIds, config \in Configs : configure(s, config)
    \/ \E s \in SpyIds : restore(s)
    \/ afterEach

HookSpec == Init /\ [][HookNext]_vars

(***************************************************************************)
(* Comparisons of two values by differenceOf, one after the other.         *)
(***************************************************************************)
Leaves ==
    {Undefined, JsNull, Num(1), Num(2), NaN, Str("a"), Str("b"),
     BoxedStr("s1", "a"), BoxedStr("s2", "a"),
     Bool(TRUE), Bool(FALSE), BoxedBool("b1", TRUE), BoxedBool("b2", TRUE),
     RegExp("r1", "/a/"), RegExp("r2", "/a/"), RegExp("r3", "/a/g"),
     Date("t1", Num(5)), Date("t2", Num(5)), Date("t3", Num(6)),
     Date("t4", NaN), Date("t5", NaN)}

DiffValues == Leaves \cup {Ref(r) : r \in Refs}

\* differenceOf(a, b, {useOwnEquals}); every call starts with an
\* alreadyComparedArray of its own, so one comparison tells nothing to the
\* next, and the test makes one
Compare(a, b, useOwnEquals) ==
    /\ last.op = "init"
    /\ last' = [Done("differenceOf", 0, <<a, b>>,
                     differenceOf(a, b, [useOwnEquals |-> useOwnEquals]))
                    EXCEPT !.prior = IF useOwnEquals THEN 1 ELSE 0]
    /\ UNCHANGED <<spies, register, obj, hist, nOps, scope, _mocks>>

DiffNext ==
    \E a \in DiffValues, b \in DiffValues, useOwnEquals \in BOOLEAN :
        Compare(a, b, useOwnEquals)

DiffSpec == Init /\ [][DiffNext]_vars

(***************************************************************************)
(* Properties.                                                             *)
(***************************************************************************)
Invoked == last.op = "invoke"
Raised == last.res.type = "throw"

\* C1: every invocation of a spy with arguments a, whatever its behaviour
\* does (return, throw, forward to an original that throws), leaves the call
\* count one higher than before and a as the arguments of the call at the
\* prior count.
C1_RecordBeforeExecute ==
    Invoked =>
        /\ getCallCount(spies[last.spy]) = last.prior + 1
        /\ getCallArguments(spies[last.spy], Num(last.prior)) = Return(last.input)

\* C1 witness: a forwarded original has thrown on a spy with earlier calls
C1_Witness ==
    Invoked /\ Raised /\ last.forwarded /\ last.prior >= 1

Least(a, b) == IF a < b THEN a ELSE b

\* the history of the spy of the latest operation
H == hist[last.spy]

\* C2: after calls(f1..fn), n >= 1, the k-th invocation since (from 0)
\* returns what f[min(k, n-1)] does with the invocation's arguments; after
\* returns(v1..vn) it returns v[min(k, n-1)]; after calls() every invocation
\* returns undefined.
C2_IndexSaturating ==
    Invoked =>
        LET k == H.since - 1
            n == Len(H.cfg.input)
            sel == Least(k, n - 1) + 1
        IN  /\ (H.cfg.op = "calls" /\ n >= 1)
                => last.res = Apply(H.cfg.input[sel].id, last.input)
            /\ (H.cfg.op = "returns" /\ n >= 1)
                => last.res = Return(H.cfg.input[sel])
            /\ (H.cfg.op = "calls" /\ n = 0)
                => last.res = Return(Undefined)

\* C2 witness: the third invocation after calls(f1, f2), which repeats f2
C2_Witness ==
    /\ Invoked
    /\ H.cfg.op = "calls"
    /\ Len(H.cfg.input) = 2
    /\ H.since = 3
    /\ last.res = Apply("f2", last.input)

(***************************************************************************)
(* The reference of C3: a spy fresh from the constructor to which only the *)
(* one configuration cfg is applied and which is then invoked k times.     *)
(***************************************************************************)
BehaviourOps == {"calls", "returns", "resolves", "rejects", "throws"}

FreshFunc(cfg) ==
    CASE cfg.op = "calls" -> CallsFunc(cfg.input)
      [] cfg.op = "returns" -> ReturnsFunc(cfg.input)
      [] cfg.op = "resolves" -> ResolvesFunc(cfg.input)
      [] cfg.op = "rejects" -> RejectsFunc(cfg.input)
      [] cfg.op = "throws" -> ThrowsFunc(cfg.input)

RECURSIVE Advance(_, _, _)
Advance(func, k, spyName) ==
    IF k = 0
    THEN func
    ELSE Advance(RunFunc(func, <<>>, 0, None, spyName).func, k - 1, spyName)

FreshOutcome(cfg, k, args, spyName) ==
    RunFunc(Advance(FreshFunc(cfg), k, spyName), args, k + 1, None, spyName).res

\* C3: whatever was configured and invoked before, an invocation made while
\* the latest configuration is one of calls/returns/resolves/rejects/throws
\* has the outcome that the same invocation has on a fresh spy with only this
\* configuration; and each of these operations returns the spy itself.
C3_LastWriteWins ==
    /\ (Invoked /\ H.cfg.op \in BehaviourOps)
        => last.res = FreshOutcome(H.cfg, H.since - 1, last.input,
                                   spies[last.spy].name)
    /\ last.op \in BehaviourOps => last.res = Return(SpyRef(last.spy))

\* C3 witness: an invocation after a configuration that replaced one whose
\* behaviour had already been invoked
C3_Witness ==
    /\ Invoked
    /\ H.cfg.op = "returns"
    /\ H.overwrote
    /\ last.res = Return(Num(1))

\* C4: while throws(e) is the latest configuration, every invocation raises
\* the normalized error (for a bare string e an error whose message is e, an
\* error e itself), also after reset().
C4_ThrowsAlways ==
    (Invoked /\ H.cfg.op = "throws") =>
        LET e == H.cfg.input
        IN  /\ Raised
            /\ last.res.v.t = "error"
            /\ e.t = "string" => last.res.v.message = e
            /\ e.t = "error" => last.res.v = e

\* C4 witness: throws("boom"), a call, reset(), and a call that raises again
C4_Witness ==
    /\ Invoked
    /\ H.cfg.op = "throws"
    /\ H.cfg.input = Str("boom")
    /\ H.since >= 2
    /\ last.prior = 0
    /\ Raised

\* the spy's registry entry exists and is active
HasActiveHandle(s) ==
    /\ spies[s].index \in 1..Len(register)
    /\ register[spies[s].index].active

\* the invocation was forwarded to the wrapped method, or did nothing when
\* there is no active original
ForwardedOrNothing ==
    IF HasActiveHandle(last.spy)
    THEN /\ last.forwarded
         /\ ~last.ranOld
         /\ last.res = Apply(H.wrapped.id, last.input)
    ELSE /\ ~last.forwarded
         /\ ~last.ranOld
         /\ last.res = Return(Undefined)

\* the invocation ran the behaviour that transparentAfter had found
RanOldBehaviour ==
    /\ last.ranOld
    /\ last.res = RunFunc(last.funcBefore.oldFunc, last.input, last.prior + 1,
                          last.original, spies[last.spy].name).res

TransparentOps == {"transparentAfter", "transparent"}

\* the n of the latest transparentAfter(n); transparent() is n = 0
ThresholdN == IF H.cfg.op = "transparent" THEN 0 ELSE H.cfg.input

\* C5 as stated: after transparentAfter(n) an invocation with 0-based index
\* <= n in the call log runs the earlier behaviour, one with index > n is
\* forwarded to the original (or does nothing without one).
C5_AsStated ==
    (Invoked /\ H.cfg.op \in TransparentOps) =>
        IF last.prior <= ThresholdN
        THEN RanOldBehaviour
        ELSE ForwardedOrNothing

\* C5 amended: after transparentAfter(n) an invocation with 0-based index
\* < n in the call log runs the earlier behaviour, one with index >= n is
\* forwarded to the original (or does nothing without one).
C5_IndexBelowN ==
    (Invoked /\ H.cfg.op \in TransparentOps) =>
        IF last.prior < ThresholdN
        THEN RanOldBehaviour
        ELSE ForwardedOrNothing

\* C5 witness: the invocation with index n = 1 was forwarded
C5_Witness ==
    /\ Invoked
    /\ H.cfg.op = "transparentAfter"
    /\ ThresholdN = 1
    /\ last.prior = 1
    /\ last.forwarded

C7_ResetFrame ==
    [][last'.op = "reset" =>
          /\ spies' = [spies EXCEPT ![last'.spy].calls = <<>>]
          /\ register' = register
          /\ obj' = obj]_vars

\* C7 witness: reset() of a wrapping spy with recorded calls and a behaviour,
\* while another spy has calls in its log
C7_Witness ==
    /\ last.op = "reset"
    /\ last.prior >= 1
    /\ HasActiveHandle(last.spy)
    /\ spies[last.spy].calls = <<>>
    /\ \E o \in SpyIds : o # last.spy /\ Len(spies[o].calls) >= 1

\* C8: a restore() step that does not raise, on a spy whose registry entry
\* is active, puts the value Spy.on had found back on the property and makes
\* the entry inactive; on a spy whose entry is inactive, or which has no
\* handle, it changes nothing.
C8_RestoreOnce ==
    [][(last'.op = "restore" /\ last'.res.type = "return") =>
          LET s == last'.spy
              h == spies[s].index
          IN  /\ spies' = spies
              /\ IF HasActiveHandle(s)
                 THEN /\ obj' = [obj EXCEPT ![register[h].key] = hist[s].wrapped]
                      /\ register' = [register EXCEPT ![h].active = FALSE]
                 ELSE /\ obj' = obj
                      /\ register' = register]_vars

\* C8 witness: a repeated restore() of a spy whose property a newer spy holds
C8_Witness ==
    /\ last.op = "restore"
    /\ ~Raised
    /\ H.viaOn
    /\ ~HasActiveHandle(last.spy)
    /\ \E o \in SpyIds :
          /\ o # last.spy
          /\ HasActiveHandle(o)
          /\ register[spies[o].index].key = register[spies[last.spy].index].key
          /\ obj[register[spies[o].index].key] = SpyRef(o)

\* C9: restore() raises exactly when the spy's config has persistent set,
\* and a raising restore() changes neither the object nor the registry nor
\* any spy; so it succeeds again once persistent is configured false.
C9_PersistentRestoreRaises ==
    [][last'.op = "restore" =>
          /\ last'.res.type = "throw"
                <=> Truthy(spies[last'.spy].config.persistent)
          /\ last'.res.type = "throw" =>
                /\ obj' = obj
                /\ register' = register
                /\ spies' = spies]_vars

\* C9 witness: restore() has raised on a persistent spy that still holds the
\* property, with its entry active
C9_Witness ==
    /\ last.op = "restore"
    /\ Raised
    /\ HasActiveHandle(last.spy)
    /\ obj[register[spies[last.spy].index].key] = SpyRef(last.spy)

SpyOf(h) ==
    IF \E s \in SpyIds : spies[s].index = h
    THEN CHOOSE s \in SpyIds : spies[s].index = h
    ELSE 0

\* C11: restoreAll() turns every active, non-persistent entry inactive and
\* puts its original back on the property; an active persistent entry and
\* its property are left as they are by every operation (restoreAll, any
\* number of times, included) other than a configure of its spy.
C11_RestoreAllSkipsPersistent ==
    [][/\ last'.op = "restoreAll" =>
            \A h \in Restorable(register) :
                /\ ~register'[h].active
                /\ obj'[register[h].key] = register[h].original
       /\ \A h \in 1..Len(register) :
            (/\ register[h].active
             /\ register[h].persistent
             /\ obj[register[h].key] = SpyRef(SpyOf(h))
             /\ ~(last'.op = "configure" /\ last'.spy = SpyOf(h)))
            => /\ register'[h] = register[h]
               /\ obj'[register[h].key] = SpyRef(SpyOf(h))]_vars

\* C11 witness: a restoreAll() that found nothing left to restore, with one
\* entry restored earlier and a persistent one still holding its spy
C11_Witness ==
    /\ last.op = "restoreAll"
    /\ last.prior = 0
    /\ \E h \in 1..Len(register) :
           ~register[h].active /\ ~register[h].persistent
    /\ \E h \in 1..Len(register) :
           /\ register[h].active /\ register[h].persistent
           /\ obj[register[h].key] = SpyRef(SpyOf(h))


\* C12: in every state reached by Spy.on, restore, restoreAll, configure
\* and invocations, the property of each active registry entry holds the
\* spy of that entry, no two active entries name the same property of the
\* object, and the property of an inactive entry does not hold the spy of
\* that entry.
C12_RegistryInvariant ==
    /\ \A h \in 1..Len(register) :
           /\ register[h].active
                  => obj[register[h].key] = SpyRef(SpyOf(h))
           /\ ~register[h].active
                  => obj[register[h].key] # SpyRef(SpyOf(h))
    /\ \A h1, h2 \in 1..Len(register) :
           (/\ h1 # h2
            /\ register[h1].active
            /\ register[h2].active) => register[h1].key # register[h2].key

\* C12 witness: a property wrapped, restored and wrapped again and the
\* second spy called (an inactive and an active entry for one property),
\* after a Spy.on that the getter-only property has refused
C12_Witness ==
    /\ Invoked
    /\ \E h1, h2 \in 1..Len(register) :
           /\ register[h1].key = register[h2].key
           /\ ~register[h1].active
           /\ register[h2].active
           /\ last.spy = SpyOf(h2)
    /\ \E h \in 1..Len(register) : register[h].key \in GetterOnly


\* the property Spy.on was asked for and the value it found there
OnFound == obj[last'.input]
OnRefuses == OnFound.t # "function" \/ OnFound.isSpy

\* C13 as stated: Spy.on raises for a non-function and for a spy, leaving
\* the object and the registry as they were; for everything else the
\* property becomes the new spy and a new entry holds the previous value.
C13_AsStated ==
    [][last'.op = "on" =>
        IF OnRefuses
        THEN /\ Raised'
             /\ obj' = obj
             /\ register' = register
        ELSE /\ ~Raised'
             /\ obj' = [obj EXCEPT ![last'.input] = SpyRef(last'.spy)]
             /\ Len(register') = Len(register) + 1
             /\ register'[Len(register')].original = OnFound]_vars

\* C13: Spy.on raises for a non-function and for a spy, leaving the object
\* and the registry as they were; for a function that is no spy on a
\* writable property, the property becomes the new spy and a new entry holds
\* the previous value; on a property that refuses the assignment it raises
\* and leaves the object as it was.
C13_OnWritable ==
    [][last'.op = "on" =>
        IF OnRefuses
        THEN /\ Raised'
             /\ obj' = obj
             /\ register' = register
        ELSE IF last'.input \in GetterOnly
        THEN /\ Raised'
             /\ obj' = obj
        ELSE /\ ~Raised'
             /\ last'.spy = Len(spies')
             /\ obj' = [obj EXCEPT ![last'.input] = SpyRef(last'.spy)]
             /\ Len(register') = Len(register) + 1
             /\ SubSeq(register', 1, Len(register)) = register
             /\ register'[Len(register')].key = last'.input
             /\ register'[Len(register')].original = OnFound]_vars

\* C13 witness: Spy.on has refused a property that a spy already occupies
C13_Witness ==
    /\ last.op = "on"
    /\ Raised
    /\ last.res.v = Err("was already spied")
    /\ obj[last.input].isSpy
    /\ Cardinality({h \in 1..Len(register) : register[h].key = last.input}) = 1


\* the comparison of the i-th recorded call (1-based) of a spy with args
Compared(spy, args, i) ==
    differenceOf(Actual(spy.calls[i]), Expected(args), spy.config)
\* the i-th call has no difference to args, and the comparisons with the
\* calls before it have come back
Matches(spy, args, i) ==
    /\ Compared(spy, args, i) = Return(Undefined)
    /\ \A j \in 1..(i - 1) : Compared(spy, args, j).type = "return"

Counterpart == wasCalledWith(spies[last.spy], last.input)
\* an error that is no assertion failure of wasCalledWith
Unrelated(res) == res = Throw(Err("equals raised"))

\* C15: of wasCalledWith(...args) and wasNotCalledWith(...args) exactly one
\* raises; wasNotCalledWith raises only when wasCalledWith passes; and an
\* error of wasCalledWith that is no assertion failure, as one raised by an
\* own equals method, is not swallowed by wasNotCalledWith.
C15_ExactComplement ==
    last.op = "wasNotCalledWith" =>
        /\ Raised # (Counterpart.type = "throw")
        /\ Raised => Counterpart = Return(Undefined)
        /\ Unrelated(Counterpart) => last.res = Counterpart

\* C15 witness: wasNotCalledWith has passed although the comparison of
\* wasCalledWith ended in an error raised by an own equals method
C15_Witness ==
    /\ last.op = "wasNotCalledWith"
    /\ ~Raised
    /\ Unrelated(Counterpart)


\* the list an entry of an expected history stands for
EntryItems(e) == IF e.t = "array" THEN e.items ELSE <<e>>

\* C16: hasCallHistory(e0..ek-1) passes exactly when the log has k calls
\* and the arguments of the i-th call have no difference to ei for every i,
\* an ei that is no list standing for the list of ei alone; when the log has
\* not k calls, what it raises is the length failure, whatever a comparison
\* of the arguments would have done.
C16_HistoryMatches ==
    last.op = "hasCallHistory" =>
        LET spy == spies[last.spy]
            k == Len(last.input)
        IN  /\ last.res = Return(Undefined)
                <=> /\ Len(spy.calls) = k
                    /\ \A i \in 1..k :
                           Compared(spy, EntryItems(last.input[i]), i)
                               = Return(Undefined)
            /\ Len(spy.calls) # k
                => last.res = Throw(HistoryLength(spy, k))

\* C16 witness: a history of a bare value and a list has passed on two calls
C16_Witness ==
    /\ last.op = "hasCallHistory"
    /\ last.res = Return(Undefined)
    /\ Len(last.input) = 2
    /\ \E i, j \in 1..2 :
           last.input[i].t # "array" /\ last.input[j].t = "array"


\* C17: getCallArguments(i) returns the arguments of the i-th call when i
\* is an integer with 0 <= i < the length of the log; for every other i
\* (negative, no integer, or not below the length) it raises the failure
\* that says the callNr was not valid and shows the call log.
C17_ValidOrNotValid ==
    last.op = "getCallArguments" =>
        LET spy == spies[last.spy]
            i == last.input
        IN  IF IsInteger(i) /\ i.v >= 0 /\ i.v < Len(spy.calls)
            THEN last.res = Return(spy.calls[i.v + 1].args)
            ELSE last.res = Throw(NotValid(spy))

\* C17 witness: getCallArguments(-1) on a spy with calls has ended in the
\* failure of reading the args of an undefined call
C17_Witness ==
    /\ last.op = "getCallArguments"
    /\ last.input = Num(-1)
    /\ Len(spies[last.spy].calls) >= 1
    /\ last.res = Throw(Err("TypeError"))


\* the assertions and queries
QueryOps ==
    {"wasCalled", "wasNotCalled", "wasCalledWith", "wasNotCalledWith",
     "hasCallHistory", "getCallArguments", "getCallArgument", "getCallCount",
     "showCallArguments"}

\* C18: an assertion or a query, whether it passes or raises, leaves the
\* call log, the behaviour and the config of every spy, the registry and
\* the object as they were.
C18_QueriesReadOnly ==
    [][last'.op \in QueryOps =>
        /\ spies' = spies
        /\ register' = register
        /\ obj' = obj]_vars

\* C18 witness: an assertion has raised on a spy that wraps a method, has
\* calls and a changed config
C18_Witness ==
    /\ last.op \in QueryOps
    /\ Raised
    /\ Len(spies[last.spy].calls) >= 1
    /\ HasActiveHandle(last.spy)
    /\ ~spies[last.spy].config.useOwnEquals


\* a declaration that is not bound: not active, every member its placeholder
Unbound(mockInfo) ==
    /\ ~mockInfo.active
    /\ \A m \in DOMAIN mockInfo.mock : mockInfo.mock[m] = uninitialized(m)

\* the methods of the declarations of the default scope that are not active
DefaultInactive ==
    UNION {Elements(_mocks[defaultScope][d].keys) :
               d \in {e \in 1..Len(_mocks[defaultScope]) :
                          ~_mocks[defaultScope][e].active}}

\* C19: createMock registers its declaration, unbound, in the scope that is
\* current and in no other; initMocks without a scope leaves the
\* declarations of every scope but the default one as they are, and it
\* changes no property of the object but those that inactive declarations
\* of the default scope name.
C19_ScopeIsolation ==
    [][/\ last'.op = "createMock" =>
            /\ \A sc \in DOMAIN _mocks \ {scope} : _mocks'[sc] = _mocks[sc]
            /\ DOMAIN _mocks' = DOMAIN _mocks
            /\ SubSeq(_mocks'[scope], 1, Len(_mocks[scope])) = _mocks[scope]
            /\ Len(_mocks'[scope]) = Len(_mocks[scope]) + 1
            /\ _mocks'[scope][Len(_mocks'[scope])].scope = scope
            /\ Unbound(_mocks'[scope][Len(_mocks'[scope])])
       /\ (last'.op = "initMocks" /\ last'.input = None) =>
            /\ \A sc \in DOMAIN _mocks \ {defaultScope} :
                   _mocks'[sc] = _mocks[sc]
            /\ \A p \in DOMAIN obj \ DefaultInactive : obj'[p] = obj[p]]_vars

\* C19 witness: with "B" current, initMocks without a scope has run over
\* an unbound declaration of "A" and has left the object as it was at first
C19_Witness ==
    /\ last.op = "initMocks"
    /\ last.input = None
    /\ scope = "B"
    /\ "A" \in DOMAIN _mocks
    /\ Len(_mocks["A"]) >= 1
    /\ \A d \in 1..Len(_mocks["A"]) : Unbound(_mocks["A"][d])
    /\ obj = InitialObj

\* the scopes initMocks(scoping) goes through
Bound(scoping) ==
    {defaultScope} \cup (IF scoping = None THEN {} ELSE {scoping[1]})

\* the methods initMocks(scoping) has to bind: one for every key of every
\* declaration of its scopes that is not active
ToBind(scoping) ==
    {<<sc, d, i>> \in Bound(scoping) \X (1..MaxMocks) \X (1..2) :
        /\ sc \in DOMAIN _mocks
        /\ d <= Len(_mocks[sc])
        /\ i <= Len(_mocks[sc][d].keys)
        /\ ~_mocks[sc][d].active}

\* C20: an initMocks that does not raise has called spyOn once for every
\* method of every declaration of its scopes that was not active, and every
\* method of those declarations is then a spy that the object holds; an
\* initMocks that finds every declaration of its scopes active calls spyOn
\* for none, does not raise, and leaves the spies with their call logs, the
\* registry, the object and the declarations as they were.
C20_InitMocksIdempotent ==
    [][last'.op = "initMocks" =>
        /\ ~Raised' =>
            /\ last'.prior = Cardinality(ToBind(last'.input))
            /\ \A t \in ToBind(last'.input) :
                   LET mockInfo == _mocks'[t[1]][t[2]]
                       m == mockInfo.keys[t[3]]
                   IN  /\ mockInfo.active
                       /\ mockInfo.mock[m].isSpy
                       /\ obj'[m] = mockInfo.mock[m]
        /\ (/\ Bound(last'.input) \subseteq DOMAIN _mocks
            /\ ToBind(last'.input) = {}) =>
            /\ ~Raised'
            /\ last'.prior = 0
            /\ spies' = spies
            /\ register' = register
            /\ obj' = obj
            /\ _mocks' = _mocks]_vars

\* C20 witness: a second initMocks over a bound declaration of two methods,
\* one of whose spies has been called in between
C20_Witness ==
    /\ last.op = "initMocks"
    /\ ~Raised
    /\ last.prior = 0
    /\ \E d \in 1..Len(_mocks[defaultScope]) :
           LET mockInfo == _mocks[defaultScope][d]
           IN  /\ mockInfo.active
               /\ Len(mockInfo.keys) = 2
               /\ \A m \in DOMAIN mockInfo.mock :
                      /\ mockInfo.mock[m].isSpy
                      /\ obj[m] = mockInfo.mock[m]
               /\ \E m \in DOMAIN mockInfo.mock :
                      Len(spies[mockInfo.mock[m].spy].calls) >= 1

\* a declaration that has been bound: every member is a spy
WasBound(mockInfo) ==
    \A m \in DOMAIN mockInfo.mock : mockInfo.mock[m].isSpy

\* the declarations, by scope and position, that initMocks(scoping) goes
\* through
DeclarationsOf(scoping) ==
    {<<sc, d>> \in Bound(scoping) \X (1..MaxMocks) :
        sc \in DOMAIN _mocks /\ d <= Len(_mocks[sc])}

\* C21: an initMocks over declarations that are active, or were bound and
\* have had a spy restored since (which has cleared the flag), and over at
\* least one of the latter, does not raise, and afterwards every method of
\* every one of them is a spy that the object holds; also when only some of
\* the spies of a declaration were restored.
C21_RebindAfterRestore ==
    [][(/\ last'.op = "initMocks"
        /\ Bound(last'.input) \subseteq DOMAIN _mocks
        /\ \A t \in DeclarationsOf(last'.input) :
               WasBound(_mocks[t[1]][t[2]])
        /\ \E t \in DeclarationsOf(last'.input) :
               ~_mocks[t[1]][t[2]].active) =>
        /\ ~Raised'
        /\ \A t \in DeclarationsOf(last'.input) :
               LET mockInfo == _mocks'[t[1]][t[2]]
               IN  /\ mockInfo.active
                   /\ \A m \in DOMAIN mockInfo.mock :
                          /\ mockInfo.mock[m].isSpy
                          /\ obj'[m] = mockInfo.mock[m]]_vars

\* C21 witness: initMocks has raised over a declaration of two methods of
\* which one had been restored: the restored one is bound to a new spy, the
\* other is still the spy of the first binding
C21_Witness ==
    /\ last.op = "initMocks"
    /\ last.res = Throw(couldNotInitError(defaultScope, "was already spied"))
    /\ Len(_mocks[defaultScope]) = 1
    /\ LET mockInfo == _mocks[defaultScope][1]
       IN  /\ mockInfo.keys = <<"f", "g">>
           /\ mockInfo.active
           /\ WasBound(mockInfo)
           /\ mockInfo.mock["f"] = SpyRef(3)
           /\ mockInfo.mock["g"] = SpyRef(2)
           /\ obj["f"] = SpyRef(3)
           /\ obj["g"] = SpyRef(2)

\* C22: createMock appends one declaration to the current scope and to no
\* other, with a placeholder for every method it names and for nothing
\* else, and leaves the object, the spies and the registry as they are;
\* calling a placeholder raises "Method '<name>' was not initialized on
\* Mock." with the name of the member; and a placeholder stays one through
\* every operation but an initMocks (which binds) and a setScope (which
\* drops the declarations of the scope it names).
C22_PlaceholdersRaise ==
    [][/\ last'.op = "createMock" =>
            LET n == Len(_mocks[scope]) + 1
            IN  /\ DOMAIN _mocks' = DOMAIN _mocks
                /\ \A sc \in DOMAIN _mocks \ {scope} : _mocks'[sc] = _mocks[sc]
                /\ Len(_mocks'[scope]) = n
                /\ \A d \in 1..(n - 1) : _mocks'[scope][d] = _mocks[scope][d]
                /\ DOMAIN _mocks'[scope][n].mock = Elements(last'.input)
                /\ \A m \in Elements(last'.input) :
                       _mocks'[scope][n].mock[m] = uninitialized(m)
                /\ obj' = obj
                /\ spies' = spies
                /\ register' = register
       /\ last'.op = "callMock" =>
            /\ _mocks[last'.input[1]][last'.prior].mock[last'.input[2]]
                   = uninitialized(last'.input[2])
            /\ last'.res = Throw(Err("Method '" \o last'.input[2]
                                     \o "' was not initialized on Mock."))
       /\ last'.op \notin {"initMocks", "setScope"} =>
            \A sc \in DOMAIN _mocks :
                /\ sc \in DOMAIN _mocks'
                /\ \A d \in 1..Len(_mocks[sc]) :
                       /\ d <= Len(_mocks'[sc])
                       /\ \A m \in DOMAIN _mocks[sc][d].mock :
                              _mocks[sc][d].mock[m] = uninitialized(m)
                                  => _mocks'[sc][d].mock[m] = uninitialized(m)
      ]_vars

\* C22 witness: with scope "A" current, the member g of an unbound
\* declaration of "A" has been called and has raised, and the object is as
\* it was at first
C22_Witness ==
    /\ last.op = "callMock"
    /\ last.input = <<"A", "g">>
    /\ last.res = Throw(NotInitialized("g"))
    /\ scope = "A"
    /\ Unbound(_mocks["A"][last.prior])
    /\ obj = InitialObj

\* the reasons for which Spy.on refuses a method
Refusals ==
    {"You should only spy on functions!", "was already spied",
     "has only a getter"}

\* C23: an initMocks that raises because a method could not be bound
\* raises couldNotInitError for the scope of a declaration it went through
\* and with the reason of the refusal, and the message carries the
\* suggestion of a module mock only when that declaration has a module name.
C23_InitializationError ==
    [][(/\ last'.op = "initMocks"
        /\ Raised'
        /\ last'.res # Throw(Err("TypeError"))) =>
        \E t \in DeclarationsOf(last'.input), reason \in Refusals :
            LET mockInfo == _mocks[t[1]][t[2]]
            IN  \/ last'.res = Throw(couldNotInitError(mockInfo.scope, reason))
                \/ /\ mockInfo.moduleName # None
                   /\ \E m \in DOMAIN mockInfo.mock :
                          last'.res = Throw(couldNotInitError(mockInfo.scope,
                              reason \o JestHint(mockInfo.moduleName, m)))
      ]_vars

\* C23 witness: under jest, initMocks has raised over a declaration of the
\* getter-only property r that has no module name, and the message suggests
\* jest.mock('undefined')
C23_Witness ==
    /\ last.op = "initMocks"
    /\ \E d \in 1..Len(_mocks[defaultScope]) :
           /\ _mocks[defaultScope][d].keys = <<"r">>
           /\ _mocks[defaultScope][d].moduleName = None
    /\ last.res = Throw(couldNotInitError(defaultScope,
                      "has only a getter" \o JestHint(None, "r")))

\* nothing but the declaration's own earlier binding stands in the way of
\* binding the declarations of the default scope: every method they name is
\* either the declaration's own spy, or a function that is no spy behind a
\* writable property, and no method is named twice
Bindable ==
    LET ds == _mocks[defaultScope]
    IN  /\ \A d \in 1..Len(ds) : \A m \in DOMAIN ds[d].mock :
               \/ obj[m] = ds[d].mock[m]
               \/ /\ obj[m].t = "function"
                  /\ ~obj[m].isSpy
                  /\ m \notin GetterOnly
        /\ \A d, e \in 1..Len(ds) :
               d # e => DOMAIN ds[d].mock \cap DOMAIN ds[e].mock = {}

\* C24: after the default after-each hook every entry that was active and
\* not persistent is inactive with the original back on its property, and
\* every spy has an empty call log; the default before-each hook leaves
\* every declaration of the default scope active with every method a spy
\* that the object holds, whenever nothing but the declaration's own
\* earlier binding stands in the way.
C24_DefaultHooks ==
    [][/\ last'.op = "afterEach" =>
            /\ \A h \in Restorable(register) :
                   /\ ~register'[h].active
                   /\ obj'[register[h].key] = register[h].original
            /\ \A s \in 1..Len(spies') : spies'[s].calls = <<>>
       /\ (last'.op = "beforeEach" /\ Bindable) =>
            \A d \in 1..Len(_mocks'[defaultScope]) :
                LET mockInfo == _mocks'[defaultScope][d]
                IN  /\ mockInfo.active
                    /\ \A m \in DOMAIN mockInfo.mock :
                           /\ mockInfo.mock[m].isSpy
                           /\ obj'[m] = mockInfo.mock[m]]_vars

\* C24 witness: a declaration of f and g was bound by the before-each hook,
\* the spy on g was made persistent, the after-each hook has restored f
\* alone, and the next before-each hook has raised
C24_Witness ==
    /\ last.op = "beforeEach"
    /\ last.res = Throw(couldNotInitError(defaultScope, "was already spied"))
    /\ Len(_mocks[defaultScope]) = 1
    /\ _mocks[defaultScope][1].keys = <<"f", "g">>
    /\ Len(register) = 3
    /\ register[2].active /\ register[2].persistent
    /\ ~register[1].active
    /\ obj["g"] = SpyRef(2)

Left == last.input[1]
Right == last.input[2]
DiffDone == last.op = "differenceOf"
NoDifference == last.res = Return(Undefined)

\* neither null nor undefined
NonNull(v) == v # Undefined /\ v # JsNull

\* C26: for two values that are not identical and not null: with the same
\* type tag, regular expressions show no difference exactly when their
\* texts are equal, numbers exactly when both are NaN, dates exactly when
\* their epoch values are equal (the epoch value of an invalid date is NaN,
\* which equals nothing), and strings and booleans always show one;
\* with different type tags the result is "different object types"; and a
\* value that is not null compared with null or undefined gives "null or
\* undefined did not match".
C26_LeafRules ==
    (DiffDone /\ ~Identical(Left, Right)) =>
        /\ (NonNull(Left) /\ NonNull(Right) /\ TypeTag(Left) = TypeTag(Right)) =>
              /\ Left.t = "regexp" => (NoDifference <=> Left.text = Right.text)
              /\ Left.t = "number" =>
                     (NoDifference <=> (Left = NaN /\ Right = NaN))
              /\ Left.t = "date" =>
                     (NoDifference <=>
                         (Left.time # NaN /\ Left.time = Right.time))
              /\ Left.t \in {"string", "boolean"} => ~NoDifference
        /\ (NonNull(Left) /\ NonNull(Right) /\ TypeTag(Left) # TypeTag(Right)) =>
              last.res = Return(Str("different object types"))
        /\ (NonNull(Left) # NonNull(Right)) =>
              last.res = Return(Str("null or undefined did not match"))

\* C26 witness: NaN compared with NaN has shown no difference
C26_Witness ==
    /\ DiffDone
    /\ Left = NaN
    /\ Right = NaN
    /\ NoDifference

\* C27: for two objects that are not identical: different constructors
\* give "different constructor"; else different numbers of own keys give
\* "different key length", whatever a's equals would say; else, with
\* useOwnEquals and an equals function on a, the outcome is that of
\* a.equals(b) alone (no difference when it accepts, although keys differ;
\* the hint when it rejects, although all keys agree); and without
\* useOwnEquals the equals function plays no part: nothing it raises comes
\* out, and the outcome is the same as for objects without one.
C27_CheckOrder ==
    (/\ DiffDone
     /\ Left.t = "object" /\ Right.t = "object"
     /\ Left # Right) =>
        LET l == Heap[Left.ref]
            r == Heap[Right.ref]
        IN  IF l.ctor # r.ctor
            THEN last.res = Return(Str("different constructor"))
            ELSE IF Len(l.keys) # Len(r.keys)
            THEN last.res = Return(Str("different key length"))
            ELSE IF last.prior = 1 /\ l.equals # "none"
            THEN CASE l.equals = "accepts" -> NoDifference
                   [] l.equals = "rejects" -> last.res = Return(Str(EqualsHint))
                   [] OTHER -> last.res.type = "throw"
            ELSE /\ last.res.type = "return"
                 /\ last.res # Return(Str(EqualsHint))
                 /\ (\A i \in 1..Len(l.keys) :
                        /\ l.keys[i] \in DOMAIN r.at
                        /\ l.at[l.keys[i]].t = "number"
                        /\ l.at[l.keys[i]] = r.at[l.keys[i]]) => NoDifference
                 /\ (\E i \in 1..Len(l.keys) :
                        /\ l.keys[i] \in DOMAIN r.at
                        /\ l.at[l.keys[i]].t = "number"
                        /\ r.at[l.keys[i]].t = "number"
                        /\ l.at[l.keys[i]] # r.at[l.keys[i]]) => ~NoDifference

\* C27 witness: with useOwnEquals, a Point of one key compared with a Point
\* of two keys, which its equals would accept, has given "different key
\* length"
C27_Witness ==
    /\ DiffDone
    /\ last.prior = 1
    /\ Left = Ref("p1")
    /\ Right = Ref("p3")
    /\ Heap["p1"].equals = "accepts"
    /\ last.res = Return(Str("different key length"))

\* the objects that the values of an object's keys are, and the objects
\* that are reached from an object by following keys
Children(r) ==
    {Heap[r].at[k].ref :
        k \in {j \in DOMAIN Heap[r].at : Heap[r].at[j].t = "object"}}

RECURSIVE ReachableFrom(_, _)
ReachableFrom(rs, n) ==
    IF n = 0
    THEN rs
    ELSE ReachableFrom(rs \cup UNION {Children(r) : r \in rs}, n - 1)

Below(r) == ReachableFrom(Children(r), Cardinality(Refs))

\* a value with a circular reference: an object from which an object is
\* reached that is below itself
Cyclic(v) == v.t = "object" /\ \E r \in {v.ref} \cup Below(v.ref) : r \in Below(r)

\* C28: every comparison comes to an outcome, also of graphs with a cycle
\* on the left, on the right or on both sides, and it visits no object
\* twice; an object whose self is itself shows no difference to itself and
\* none to another such object.
C28_Terminates ==
    DiffDone =>
        LET d == __diff(Left, Right, TRUE, last.prior = 1, <<>>)
        IN  /\ last.res = d.res
            /\ last.res.type \in {"return", "throw"}
            /\ last.res.type = "return" =>
                   last.res.v = Undefined \/ last.res.v.t = "string"
            /\ \A i, j \in 1..Len(d.seen) : i # j => d.seen[i] # d.seen[j]
            /\ (/\ Left.t = "object" /\ Right.t = "object"
                /\ Heap[Left.ref].keys = <<"self">>
                /\ Heap[Right.ref].keys = <<"self">>
                /\ Heap[Left.ref].at["self"] = Left
                /\ Heap[Right.ref].at["self"] = Right) => NoDifference

\* C28 witness: two distinct objects, each its own self, have shown no
\* difference
C28_Witness ==
    /\ DiffDone
    /\ Left = Ref("c1")
    /\ Right = Ref("c2")
    /\ Cyclic(Left) /\ Cyclic(Right)
    /\ NoDifference

\* the comparison of the latest two values as a sub-comparison of a call
\* that has visited the left one already
Revisited == __diff(Left, Right, FALSE, last.prior = 1, <<Left>>)

\* C29 as stated: a sub-comparison whose left value is an object that the
\* call has visited already shows no difference, whatever the right value.
C29_AsStated ==
    (DiffDone /\ Left.t = "object") => Revisited.res = Return(Undefined)

\* C29: a sub-comparison whose left value is an object that the call has
\* visited already shows no difference, and compares no key, when the
\* right value is an object of the same constructor and with as many keys
\* and a's equals is not used; a right value that is null or undefined, of
\* another type or constructor or with another number of keys is reported
\* as at a first visit.
C29_GuardAfterFlatChecks ==
    (DiffDone /\ Left.t = "object" /\ Left # Right) =>
        IF ~NonNull(Right)
        THEN Revisited.res = Return(Str("null or undefined did not match"))
        ELSE IF Right.t # "object"
        THEN Revisited.res = Return(Str("different object types"))
        ELSE IF Heap[Left.ref].ctor # Heap[Right.ref].ctor
        THEN Revisited.res = Return(Str("different constructor"))
        ELSE IF Len(Heap[Left.ref].keys) # Len(Heap[Right.ref].keys)
        THEN Revisited.res = Return(Str("different key length"))
        ELSE IF last.prior = 1 /\ Heap[Left.ref].equals # "none"
        THEN Revisited.res = differenceOf(Left, Right, [useOwnEquals |-> TRUE])
        ELSE Revisited = Same(<<Left>>)

\* C29 witness: d1 holds o1 under x and under y; compared with an object
\* that holds a Point under y, the second visit of o1 has reported the
\* different constructor
C29_Witness ==
    /\ DiffDone
    /\ Left = Ref("d1")
    /\ Right = Ref("d4")
    /\ Get(Left, "x") = Get(Left, "y")
    /\ last.res = Return(Str("--> y / different constructor"))

\* structural equality along the key paths of a: both are the same value,
\* or both are NaN, or both are objects of which b has under every key of
\* a a value that equals a's; n bounds the depth (values without circular
\* references are no deeper than there are objects)
RECURSIVE DeepEqual(_, _, _)
DeepEqual(a, b, n) ==
    \/ a = b
    \/ /\ a.t = "object" /\ b.t = "object"
       /\ n > 0
       /\ \A i \in 1..Len(Heap[a.ref].keys) :
              DeepEqual(Get(a, Heap[a.ref].keys[i]),
                        Get(b, Heap[a.ref].keys[i]), n - 1)
    \/ /\ a.t = "regexp" /\ b.t = "regexp" /\ a.text = b.text
    \/ /\ a.t = "date" /\ b.t = "date" /\ a.time = b.time

\* C30: without circular references and with useOwnEquals off, a comparison
\* shows no difference only if every key path that reaches a leaf in a
\* reaches an equal leaf in b.
C30_NoDifferenceMeansEqual ==
    (/\ DiffDone
     /\ last.prior = 0
     /\ ~Cyclic(Left) /\ ~Cyclic(Right)
     /\ NoDifference) => DeepEqual(Left, Right, Cardinality(Refs))

\* C30 witness: d1 holds the one object {a: 1} under x and under y; d2
\* holds {a: 1} under x and {a: 2} under y; the comparison has shown no
\* difference
C30_Witness ==
    /\ DiffDone
    /\ last.prior = 0
    /\ Left = Ref("d1")
    /\ Right = Ref("d2")
    /\ Get(Left, "x") = Get(Left, "y")
    /\ Get(Get(Left, "y"), "a") = Num(1)
    /\ Get(Get(Right, "y"), "a") = Num(2)
    /\ NoDifference

\* C31: with useOwnEquals off, two distinct plain objects that show no
\* difference have the same own keys.
C31_SameKeys ==
    (/\ DiffDone
     /\ last.prior = 0
     /\ Left.t = "object" /\ Right.t = "object"
     /\ Left # Right
     /\ Heap[Left.ref].ctor = "Object" /\ Heap[Right.ref].ctor = "Object"
     /\ NoDifference) =>
        Elements(Heap[Left.ref].keys) = Elements(Heap[Right.ref].keys)

\* C31 witness: {x: undefined} compared with {y: undefined} has shown no
\* difference
C31_Witness ==
    /\ DiffDone
    /\ last.prior = 0
    /\ Left = Ref("u1")
    /\ Right = Ref("u2")
    /\ objectKeys(Left) = <<"x">>
    /\ objectKeys(Right) = <<"y">>
    /\ NoDifference

\* C32: a reset leaves what the next invocation does as it was: for every
\* argument list, the invocation that follows the reset has the outcome,
\* and runs the original method or the earlier behaviour, as the same
\* invocation in place of the reset would have.
C32_ResetKeepsBehaviour ==
    [][last'.op = "reset" =>
        LET s == last'.spy
            before == spies[s]
            after == spies'[s]
        IN  \A args \in ArgLists :
                LET b == RunFunc(before.func, args, Len(before.calls) + 1,
                                 getOriginalMethod(register, before.index),
                                 before.name)
                    a == RunFunc(after.func, args, Len(after.calls) + 1,
                                 getOriginalMethod(register', after.index),
                                 after.name)
                IN  /\ a.res = b.res
                    /\ a.forwarded = b.forwarded
                    /\ a.ranOld = b.ranOld]_vars

\* C32 witness: a spy on a method, made transparent after one call and
\* called once, has been reset: its next invocation would have been
\* forwarded to the original, and now runs the earlier behaviour once more
C32_Witness ==
    /\ last.op = "reset"
    /\ LET spy == spies[last.spy]
       IN  /\ spy.func.kind = "transparent"
           /\ spy.func.callCount = 1
           /\ last.prior = 1
           /\ spy.calls = <<>>
           /\ getOriginalMethod(register, spy.index) # None
           /\ ~RunFunc(spy.func, <<Num(1)>>, 1,
                       getOriginalMethod(register, spy.index),
                       spy.name).forwarded
           /\ RunFunc(spy.func, <<Num(1)>>, last.prior + 1,
                      getOriginalMethod(register, spy.index),
                      spy.name).forwarded

\* C33: in every state a declaration whose active flag is set has every
\* member bound to a spy that the object holds; and an initMocks that
\* raises leaves the properties of every declaration it went through
\* either all replaced by the declaration's spies or none newly replaced
\* by one.
C33_DeclarationInvariant ==
    [][/\ \A sc \in DOMAIN _mocks' : \A d \in 1..Len(_mocks'[sc]) :
              _mocks'[sc][d].active =>
                  \A m \in DOMAIN _mocks'[sc][d].mock :
                      /\ _mocks'[sc][d].mock[m].isSpy
                      /\ obj'[m] = _mocks'[sc][d].mock[m]
       /\ (last'.op = "initMocks" /\ Raised') =>
              \A t \in DeclarationsOf(last'.input) :
                  LET mock == _mocks'[t[1]][t[2]].mock
                  IN  (\E m \in DOMAIN mock :
                           obj'[m] = mock[m] /\ obj'[m] # obj[m])
                          => \A m \in DOMAIN mock : obj'[m] = mock[m]]_vars

\* C33 witness: initMocks has raised over a declaration of g and of the
\* getter-only r: the declaration is active, g is a spy on the object, and
\* the member r still is its placeholder
C33_Witness ==
    /\ last.op = "initMocks"
    /\ Raised
    /\ \E d \in 1..Len(_mocks[defaultScope]) :
           LET mockInfo == _mocks[defaultScope][d]
           IN  /\ mockInfo.keys = <<"g", "r">>
               /\ mockInfo.active
               /\ mockInfo.mock["g"].isSpy
               /\ obj["g"] = mockInfo.mock["g"]
               /\ mockInfo.mock["r"] = uninitialized("r")
               /\ obj["r"] = InitialObj["r"]

\* C34: a configure call that raises because the spy has no registry
\* handle leaves the spy's useOwnEquals and persistent settings as they
\* were before the call.
C34_RaisingConfigureChangesNothing ==
    [][(last'.op = "configure" /\ Raised') =>
           LET s == last'.spy
           IN  /\ Falsy(spies[s].index)
               /\ spies'[s].config.useOwnEquals = spies[s].config.useOwnEquals
               /\ spies'[s].config.persistent = spies[s].config.persistent]_vars

\* C34 witness: configure({useOwnEquals: false, persistent: true}) has
\* raised on a spy without a registry handle, and the spy's useOwnEquals is
\* the one of the call
C34_Witness ==
    /\ last.op = "configure"
    /\ Raised
    /\ last.input = [useOwnEquals |-> Some(FALSE), persistent |-> Some(TRUE)]
    /\ Falsy(spies[last.spy].index)
    /\ spies[last.spy].config.useOwnEquals = FALSE
    /\ spies[last.spy].config.persistent = None

====
